---------------------------- MODULE Spec2Model ----------------------------
(***************************************************************************)
(* gitease: the workflow executor (src/src/cli.ts, handleWorkflow), the    *)
(* undo ledger (ledger.ts) and the command patterns they consult           *)
(* (safety.ts, constants.ts).                                              *)
(*                                                                         *)
(* Command texts are sequences of one-character strings, so that the       *)
(* regular expressions and trims of the source are computed on the text.   *)
(* Every await of handleWorkflow is a separate action: the collaborator's  *)
(* answer (command outcome, conflict report, operator's answer) is the     *)
(* action's input.                                                         *)
(***************************************************************************)
EXTENDS Integers, Sequences, FiniteSets, TLC

\* ------------------------------------------------------------- bounds

\* Longest workflow the suggestion provider returns in the model.
MaxSteps == 3

\* Largest reading of the millisecond clock (Date.now()) in the model.
MaxClock == 2
MaxAppends == 3

\* How often undo is invoked.
MaxUndos == 2

\* ------------------------------------------------------------- text

SP == <<" ">>
TAB == <<"\t">>
GIT == <<"g", "i", "t">>
W_fetch == <<"f", "e", "t", "c", "h">>
W_merge == <<"m", "e", "r", "g", "e">>
W_pull == <<"p", "u", "l", "l">>
W_rebase == <<"r", "e", "b", "a", "s", "e">>
W_push == <<"p", "u", "s", "h">>
W_reset == <<"r", "e", "s", "e", "t">>
W_clean == <<"c", "l", "e", "a", "n">>
W_rm == <<"r", "m">>
W_reflog == <<"r", "e", "f", "l", "o", "g">>
W_status == <<"s", "t", "a", "t", "u", "s">>
W_x == <<"x">>
W_checkout == <<"c", "h", "e", "c", "k", "o", "u", "t">>
W_switch == <<"s", "w", "i", "t", "c", "h">>
W_branch == <<"b", "r", "a", "n", "c", "h">>
W_add == <<"a", "d", "d">>
W_commit == <<"c", "o", "m", "m", "i", "t">>
W_revert == <<"r", "e", "v", "e", "r", "t">>
W_HEAD == <<"H", "E", "A", "D">>
W_tilde == <<"~">>
W_two == <<"2">>
F_soft == <<"-", "-", "s", "o", "f", "t">>
F_m == <<"-", "m">>
F_hard == <<"-", "-", "h", "a", "r", "d">>
F_force == <<"-", "-", "f", "o", "r", "c", "e">>
F_i == <<"-", "i">>
F_fd == <<"-", "f", "d">>
F_r == <<"-", "r">>
F_D == <<"-", "D">>

\* String.prototype.trim / the class \s on the characters of the model.
IsSpace(c) == c \in {" ", "\t"}

\* s.startsWith(p, k - 1): p occurs in s at (1-based) position k.
StartsWithAt(s, p, k) ==
    /\ k >= 1
    /\ k + Len(p) - 1 <= Len(s)
    /\ \A n \in 1..Len(p) : s[k + n - 1] = p[n]

\* The first position >= k of s that holds no white space (Len(s)+1 if none).
RECURSIVE SkipSpaces(_, _)
SkipSpaces(s, k) ==
    IF k <= Len(s) /\ IsSpace(s[k]) THEN SkipSpaces(s, k + 1) ELSE k

\* The last position <= k of s that holds no white space (0 if none).
RECURSIVE SkipSpacesBack(_, _)
SkipSpacesBack(s, k) ==
    IF k >= 1 /\ IsSpace(s[k]) THEN SkipSpacesBack(s, k - 1) ELSE k

Trim(s) ==
    LET a == SkipSpaces(s, 1)
        b == SkipSpacesBack(s, Len(s))
    IN  IF a > b THEN <<>> ELSE SubSeq(s, a, b)

\* A regular expression w1\s+w2\s+...wn matched at position k of s.
RECURSIVE MatchFrom(_, _, _)
MatchFrom(s, k, words) ==
    IF words = <<>> THEN TRUE
    ELSE /\ StartsWithAt(s, Head(words), k)
         /\ \/ Len(words) = 1
            \/ LET k2 == k + Len(Head(words))
               IN  /\ k2 <= Len(s)
                   /\ IsSpace(s[k2])
                   /\ MatchFrom(s, SkipSpaces(s, k2), Tail(words))

\* pattern.test(s) for an anchored pattern /^w1\s+w2.../.
Test(words, s) == MatchFrom(s, 1, words)

\* ------------------------------------------------------------- commands

\* Commands the suggestion provider plans with in the model.
C_fetch == GIT \o SP \o W_fetch
C_merge == GIT \o SP \o W_merge \o SP \o W_x
C_pull == GIT \o SP \o SP \o W_pull
C_rebase_i == GIT \o SP \o W_rebase \o SP \o F_i
C_push_force == GIT \o SP \o TAB \o W_push \o SP \o F_force
C_reflog == GIT \o SP \o W_reflog
C_status == GIT \o SP \o W_status

Commands == {C_fetch, C_merge, C_pull, C_rebase_i, C_push_force}

\* An absent optional value (undefined), and a present one.
Undefined == <<>>
Some(x) == <<x>>

\* ------------------------------------------------------------- patterns

DANGEROUS_COMMANDS ==
    << <<GIT, W_reset, F_hard>>,
       <<GIT, W_push, F_force>>,
       <<GIT, W_rebase, F_i>>,
       <<GIT, W_clean, F_fd>>,
       <<GIT, W_rm, F_r>> >>

isReversible_NoTrim(command) ==
    ~ \E n \in 1..Len(DANGEROUS_COMMANDS) : Test(DANGEROUS_COMMANDS[n], command)

isReversible(command) ==
    LET trimmed == Trim(command)
    IN  ~ \E n \in 1..Len(DANGEROUS_COMMANDS) : Test(DANGEROUS_COMMANDS[n], trimmed)

\* The end of the run of non-space characters that starts at position k.
RECURSIVE TokenEnd(_, _)
TokenEnd(s, k) ==
    IF k + 1 <= Len(s) /\ ~IsSpace(s[k + 1]) THEN TokenEnd(s, k + 1) ELSE k

\* /(?:checkout|switch)\s+([^\s]+)/ tried at position p: the capture, if any.
BranchMatchAt(s, p) ==
    LET w == IF StartsWithAt(s, W_checkout, p) THEN W_checkout
             ELSE IF StartsWithAt(s, W_switch, p) THEN W_switch
             ELSE <<>>
        k2 == p + Len(w)
        j == SkipSpaces(s, k2)
    IN  IF w # <<>> /\ k2 <= Len(s) /\ IsSpace(s[k2]) /\ j <= Len(s)
        THEN Some(SubSeq(s, j, TokenEnd(s, j)))
        ELSE Undefined

\* /(?:add|rm|checkout)\s+(.+)/ tried at position p: the capture, if any.
\* When only white space follows, \s+ gives its last character back to (.+).
FileMatchAt(s, p) ==
    LET w == IF StartsWithAt(s, W_add, p) THEN W_add
             ELSE IF StartsWithAt(s, W_rm, p) THEN W_rm
             ELSE IF StartsWithAt(s, W_checkout, p) THEN W_checkout
             ELSE <<>>
        k2 == p + Len(w)
        j == SkipSpaces(s, k2)
    IN  IF w # <<>> /\ k2 <= Len(s) /\ IsSpace(s[k2])
        THEN IF j <= Len(s) THEN Some(SubSeq(s, j, Len(s)))
             ELSE IF j - k2 >= 2 THEN Some(SubSeq(s, Len(s), Len(s)))
             ELSE Undefined
        ELSE Undefined

\* command.match(...): the capture of the leftmost match from position p on.
RECURSIVE BranchMatch(_, _)
BranchMatch(s, p) ==
    IF p > Len(s) THEN Undefined
    ELSE IF BranchMatchAt(s, p) # Undefined THEN BranchMatchAt(s, p)
    ELSE BranchMatch(s, p + 1)

RECURSIVE FileMatch(_, _)
FileMatch(s, p) ==
    IF p > Len(s) THEN Undefined
    ELSE IF FileMatchAt(s, p) # Undefined THEN FileMatchAt(s, p)
    ELSE FileMatch(s, p + 1)

\* The texts "branch: " and "file: " of the item templates.
T_branch == <<"b", "r", "a", "n", "c", "h", ":", " ">>
T_file == <<"f", "i", "l", "e", ":", " ">>

extractAffectedItems(command) ==
    LET branchMatch == BranchMatch(command, 1)
        fileMatches == FileMatch(command, 1)
    IN  (IF branchMatch # Undefined THEN <<T_branch \o branchMatch[1]>> ELSE <<>>)
        \o (IF fileMatches # Undefined THEN <<T_file \o fileMatches[1]>> ELSE <<>>)

\* analyzeCommand(command): the SafetyAnalysis it returns.
analyzeCommand_NoTrim(command) ==
    LET trimmed == command
    IN  IF \E n \in 1..Len(DANGEROUS_COMMANDS) : Test(DANGEROUS_COMMANDS[n], trimmed)
        THEN [riskLevel |-> "dangerous",
              message |-> "This command can irreversibly delete or modify commits",
              reversible |-> FALSE,
              affectedItems |-> extractAffectedItems(trimmed)]
        ELSE IF Test(<<GIT, W_push>>, trimmed)
        THEN [riskLevel |-> "warning",
              message |-> "This will push changes to the remote repository",
              reversible |-> TRUE,
              affectedItems |-> extractAffectedItems(trimmed)]
        ELSE IF Test(<<GIT, W_rebase>>, trimmed)
        THEN [riskLevel |-> "warning",
              message |-> "This will rewrite commit history",
              reversible |-> TRUE,
              affectedItems |-> extractAffectedItems(trimmed)]
        ELSE [riskLevel |-> "safe",
              message |-> "This operation is safe",
              reversible |-> TRUE,
              affectedItems |-> <<>>]

analyzeCommand_WarningFirst(command) ==
    LET trimmed == Trim(command)
    IN  IF Test(<<GIT, W_push>>, trimmed)
        THEN [riskLevel |-> "warning",
              message |-> "This will push changes to the remote repository",
              reversible |-> TRUE,
              affectedItems |-> extractAffectedItems(trimmed)]
        ELSE IF Test(<<GIT, W_rebase>>, trimmed)
        THEN [riskLevel |-> "warning",
              message |-> "This will rewrite commit history",
              reversible |-> TRUE,
              affectedItems |-> extractAffectedItems(trimmed)]
        ELSE IF \E n \in 1..Len(DANGEROUS_COMMANDS) : Test(DANGEROUS_COMMANDS[n], trimmed)
        THEN [riskLevel |-> "dangerous",
              message |-> "This command can irreversibly delete or modify commits",
              reversible |-> FALSE,
              affectedItems |-> extractAffectedItems(trimmed)]
        ELSE [riskLevel |-> "safe",
              message |-> "This operation is safe",
              reversible |-> TRUE,
              affectedItems |-> <<>>]

analyzeCommand_SafeExtracts(command) ==
    LET trimmed == Trim(command)
    IN  IF \E n \in 1..Len(DANGEROUS_COMMANDS) : Test(DANGEROUS_COMMANDS[n], trimmed)
        THEN [riskLevel |-> "dangerous",
              message |-> "This command can irreversibly delete or modify commits",
              reversible |-> FALSE,
              affectedItems |-> extractAffectedItems(trimmed)]
        ELSE IF Test(<<GIT, W_push>>, trimmed)
        THEN [riskLevel |-> "warning",
              message |-> "This will push changes to the remote repository",
              reversible |-> TRUE,
              affectedItems |-> extractAffectedItems(trimmed)]
        ELSE IF Test(<<GIT, W_rebase>>, trimmed)
        THEN [riskLevel |-> "warning",
              message |-> "This will rewrite commit history",
              reversible |-> TRUE,
              affectedItems |-> extractAffectedItems(trimmed)]
        ELSE [riskLevel |-> "safe",
              message |-> "This operation is safe",
              reversible |-> TRUE,
              affectedItems |-> extractAffectedItems(trimmed)]

analyzeCommand(command) ==
    LET trimmed == Trim(command)
    IN  IF \E n \in 1..Len(DANGEROUS_COMMANDS) : Test(DANGEROUS_COMMANDS[n], trimmed)
        THEN [riskLevel |-> "dangerous",
              message |-> "This command can irreversibly delete or modify commits",
              reversible |-> FALSE,
              affectedItems |-> extractAffectedItems(trimmed)]
        ELSE IF Test(<<GIT, W_push>>, trimmed)
        THEN [riskLevel |-> "warning",
              message |-> "This will push changes to the remote repository",
              reversible |-> TRUE,
              affectedItems |-> extractAffectedItems(trimmed)]
        ELSE IF Test(<<GIT, W_rebase>>, trimmed)
        THEN [riskLevel |-> "warning",
              message |-> "This will rewrite commit history",
              reversible |-> TRUE,
              affectedItems |-> extractAffectedItems(trimmed)]
        ELSE [riskLevel |-> "safe",
              message |-> "This operation is safe",
              reversible |-> TRUE,
              affectedItems |-> <<>>]

\* REVERSIBLE_OPERATIONS, in the order Object.entries yields its keys.
REVERSIBLE_OPERATIONS ==
    << <<GIT \o SP \o W_reset \o SP \o F_soft \o SP \o W_HEAD \o W_tilde,
         GIT \o SP \o W_commit>>,
       <<GIT \o SP \o W_reset \o SP \o W_HEAD,
         GIT \o SP \o W_add>>,
       <<GIT \o SP \o W_revert,
         GIT \o SP \o W_reset \o SP \o F_hard>> >>

\* command.includes(original)
Includes(s, p) == \E k \in 1..(Len(s) + 1) : k + Len(p) - 1 <= Len(s) /\ StartsWithAt(s, p, k)

\* getReversalCommand(command): the reversal, or null (Undefined).
RECURSIVE ReversalFrom(_, _)
ReversalFrom(command, n) ==
    IF n > Len(REVERSIBLE_OPERATIONS) THEN Undefined
    ELSE IF Includes(command, REVERSIBLE_OPERATIONS[n][1])
    THEN Some(REVERSIBLE_OPERATIONS[n][2])
    ELSE ReversalFrom(command, n + 1)

RECURSIVE ReversalFromPrefix(_, _)
ReversalFromPrefix(command, n) ==
    IF n > Len(REVERSIBLE_OPERATIONS) THEN Undefined
    ELSE IF StartsWithAt(command, REVERSIBLE_OPERATIONS[n][1], 1)
    THEN Some(REVERSIBLE_OPERATIONS[n][2])
    ELSE ReversalFromPrefix(command, n + 1)

RECURSIVE ReversalFromExact(_, _)
ReversalFromExact(command, n) ==
    IF n > Len(REVERSIBLE_OPERATIONS) THEN Undefined
    ELSE IF command = REVERSIBLE_OPERATIONS[n][1]
    THEN Some(REVERSIBLE_OPERATIONS[n][2])
    ELSE ReversalFromExact(command, n + 1)

getReversalCommand_StartsWith(command) == ReversalFromPrefix(command, 1)

getReversalCommand_Exact(command) == ReversalFromExact(command, 1)

getReversalCommand(command) == ReversalFrom(command, 1)

\* /^git\s+(merge|pull|rebase)/.test(step.command)
IsMergeFamily_OnlyMerge(command) == Test(<<GIT, W_merge>>, command)

IsMergeFamily_Always(command) == TRUE

IsMergeFamily(command) ==
    \E w \in {W_merge, W_pull, W_rebase} : Test(<<GIT, w>>, command)

\* ------------------------------------------------------------- ledger

\* The ledger file is missing, or holds text that JSON.parse rejects
\* ("malformed"), or JSON that is no array (an object: "nonarray"; the value
\* null: "null"), or a JSON array of
\* entries ("array"); entries is empty unless it is an array.
FileOf(state, entries) == [state |-> state, entries |-> entries]

\* getLedger() when readFileSync succeeds (readOk) or throws: an array of
\* entries, or the parsed value that is no array.
getLedger_NoFallback(file, readOk) ==
    IF file.state = "missing" THEN [array |-> TRUE, entries |-> <<>>]
    ELSE IF ~readOk THEN [array |-> FALSE, entries |-> <<>>]
    ELSE IF file.state = "malformed" THEN [array |-> FALSE, entries |-> <<>>]
    ELSE IF file.state \in {"nonarray", "null"} THEN [array |-> FALSE, entries |-> <<>>]
    ELSE [array |-> TRUE, entries |-> file.entries]

getLedger(file, readOk) ==
    IF file.state = "missing" THEN [array |-> TRUE, entries |-> <<>>]
    ELSE IF ~readOk THEN [array |-> TRUE, entries |-> <<>>]
    ELSE IF file.state = "malformed" THEN [array |-> TRUE, entries |-> <<>>]
    ELSE IF file.state \in {"nonarray", "null"} THEN [array |-> FALSE, entries |-> <<>>]
    ELSE [array |-> TRUE, entries |-> file.entries]

\* A getLastCommand that returns the oldest entry instead of the newest.
getLastCommand_First(file, readOk) ==
    LET found == getLedger(file, readOk)
    IN  [threw |-> FALSE,
         entry |-> IF found.entries = <<>> THEN Undefined ELSE Some(found.entries[1])]

\* getLastCommand(): ledger[ledger.length - 1] || null, with no try/catch of
\* its own. On an object that is no array, length is undefined and the
\* result is null; on the value null the property access throws.
getLastCommand(file, readOk) ==
    LET ledger == getLedger(file, readOk)
    IN  IF ledger.array
        THEN [threw |-> FALSE,
              entry |-> IF ledger.entries = <<>> THEN Undefined
                        ELSE Some(ledger.entries[Len(ledger.entries)])]
        ELSE IF file.state = "null"
        THEN [threw |-> TRUE, entry |-> Undefined]
        ELSE [threw |-> FALSE, entry |-> Undefined]

\* saveLedger(ledger): the file after writeFileSync wrote it ("ok"), threw
\* before touching it ("refused"), or threw after truncating it ("torn").
saveLedger(file, entries, written) ==
    IF written = "ok" THEN FileOf("array", entries)
    ELSE IF written = "torn" THEN FileOf("malformed", <<>>)
    ELSE file

\* The entry addLedgerEntry builds at clock reading t.
NewEntry(entry, t) ==
    [id |-> t, timestamp |-> t,
     description |-> entry.description,
     command |-> entry.command,
     status |-> entry.status,
     reversalCommand |-> entry.reversalCommand]

\* addLedgerEntry(entry) at clock reading t: the ledger file afterwards.
\* ledger.push throws on a value that is no array; the catch swallows it.
addLedgerEntry_Front(file, entry, t, readOk, written) ==
    LET ledger == getLedger(file, readOk)
    IN  IF ~ledger.array THEN file
        ELSE saveLedger(file, <<NewEntry(entry, t)>> \o ledger.entries, written)

\* ledger.push(newEntry)
Push_Replace(entries, newEntry) == <<newEntry>>

Push(entries, newEntry) == Append(entries, newEntry)

addLedgerEntry_DropReversal(file, entry, t, readOk, written) ==
    LET ledger == getLedger(file, readOk)
        newEntry == [NewEntry(entry, t) EXCEPT !.reversalCommand = Undefined]
    IN  IF ~ledger.array THEN file
        ELSE saveLedger(file, Append(ledger.entries, newEntry), written)

addLedgerEntry(file, entry, t, readOk, written) ==
    LET ledger == getLedger(file, readOk)
        newEntry == NewEntry(entry, t)
    IN  IF ~ledger.array THEN file
        ELSE saveLedger(file, Push(ledger.entries, newEntry), written)

\* An exception thrown inside try { ... } leaves the function only if no
\* catch clause takes it.
Escapes(thrown, caught) == thrown /\ ~caught

\* saveLedger: writeFileSync throws when the write fails; catch (error) at 54.
saveLedgerThrows(written) == Escapes(written # "ok", TRUE)

\* addLedgerEntry: ledger.push throws on a value that is no array, saveLedger
\* may throw; catch (error) at 35.
addLedgerEntryThrows_NoCatch(file, readOk, written) ==
    LET ledger == getLedger(file, readOk)
    IN  Escapes(~ledger.array \/ saveLedgerThrows(written), FALSE)

addLedgerEntryThrows(file, readOk, written) ==
    LET ledger == getLedger(file, readOk)
    IN  Escapes(~ledger.array \/ saveLedgerThrows(written), TRUE)

\* A success entry that carries the placeholder whatever the command.
SuccessEntry_Always(idx, n, command) ==
    [description |-> [kind |-> "workflow", step |-> idx, of |-> n],
     command |-> command,
     status |-> "success",
     reversalCommand |-> Some(C_reflog)]

\* The entry handleWorkflow logs for step idx of n (description
\* `[workflow idx/n] query`).
SuccessEntry(idx, n, command) ==
    [description |-> [kind |-> "workflow", step |-> idx, of |-> n],
     command |-> command,
     status |-> "success",
     reversalCommand |-> IF isReversible(command) THEN Some(C_reflog) ELSE Undefined]

FailedEntry(idx, n, command) ==
    [description |-> [kind |-> "workflow", step |-> idx, of |-> n],
     command |-> command,
     status |-> "failed",
     reversalCommand |-> Undefined]

\* The entry the single-command path logs after the command succeeded
\* (description: the query).
SingleEntry(command) ==
    [description |-> [kind |-> "single", step |-> 0, of |-> 0],
     command |-> command,
     status |-> "success",
     reversalCommand |-> IF isReversible(command) THEN Some(C_reflog) ELSE Undefined]

\* An entry left by an earlier invocation, at a clock reading before this one's.
PriorEntry ==
    [id |-> -1, timestamp |-> -1,
     description |-> [kind |-> "single", step |-> 0, of |-> 0],
     command |-> C_status, status |-> "success",
     reversalCommand |-> Some(C_reflog)]

PriorLedgers == {<<>>, <<PriorEntry>>}

\* The ledger file a process may find: one that reads and parses, or none;
\* where storage faults are considered, also one that does not parse.
StartFiles(faulty) ==
    {FileOf("missing", <<>>)}
    \cup {FileOf("array", l) : l \in PriorLedgers}
    \cup (IF faulty
          THEN {FileOf("malformed", <<>>), FileOf("nonarray", <<>>), FileOf("null", <<>>)}
          ELSE {})

\* ------------------------------------------------------------- state

VARIABLES
    workflow,        \* the planned Workflow: [steps, stopOnFailure]
    pc,              \* the await handleWorkflow is suspended at
    i,               \* the loop index of handleWorkflow, counted from 1
    completedSteps,  \* handleWorkflow's counter of succeeded steps
    ledger,          \* the entries of the ledger file
    fileState,       \* the ledger file: missing, malformed, nonarray, array
    faults,          \* whether storage may fail in this behaviour
    ledger0,         \* the entries of the ledger file when the process started
    now,             \* the reading of Date.now()
    execLog,         \* step indices handed to execAsync, in call order
    execOutcomes,    \* whether each of these calls resolved, in call order
    checkLog,        \* calls of checkConflicts: [step, hasConflicts]
    abortCalls,      \* calls of abortMerge: the step after which each was made
    prompts,         \* prompts put to the operator: [prompt, answer]
    reported,        \* steps flagged Dangerous ahead of the confirmation
    summary,         \* the summary printed: none, complete, partial, failed
    exitCode,        \* the process's exit code, -1 while it runs
    safetyIn,        \* the command handed to analyzeCommand and isReversible
    verdict,         \* what analyzeCommand returned, once called
    reversibleOut,   \* what isReversible returned, once called
    resolveIn,       \* the command handed to getReversalCommand, once called
    reversalOut,     \* what getReversalCommand returned, once called
    supplied,        \* the entries handed to addLedgerEntry, in call order
    readOut,         \* what getLedger returned, once called after the appends
    lastOut,         \* what getLastCommand returned, once called after the appends
    appendThrew,     \* whether a call of addLedgerEntry threw to its caller
    writers,         \* two processes inside addLedgerEntry: where each is
    cmd,             \* the single-command path's command, <<>> before it has one
    ran,             \* the command texts the single-command and undo paths executed
    recovery,        \* the branch recovery the single-command path offers, if any
    target,          \* the entry undo found last in the ledger, once it looked
    reversal,        \* the command undo proposes, <<>> when it proposes none
    undos,           \* the number of undo invocations started
    provider         \* the call of the suggestion provider: idle, resolved, failed

vars == <<workflow, pc, i, completedSteps, ledger, fileState, faults, ledger0,
          now, execLog, checkLog, abortCalls, prompts, reported, summary,
          exitCode, safetyIn, verdict, reversibleOut, resolveIn, reversalOut,
          supplied, readOut, lastOut, appendThrew, writers, execOutcomes, cmd, ran,
          recovery, target, reversal, undos, provider>>

\* The state of the workflow run, of the safety functions' calls and of
\* the ledger's calls.
workflowVars == <<workflow, pc, i, completedSteps, ledger0, execLog, execOutcomes,
                  checkLog, abortCalls, prompts, reported, summary, exitCode>>

safetyVars == <<safetyIn, verdict, reversibleOut, resolveIn, reversalOut>>

callVars == <<supplied, readOut, lastOut, appendThrew, writers>>

pathVars == <<cmd, ran, recovery, target, reversal, undos, provider>>

\* What handleWorkflow does not touch.
otherVars == <<safetyVars, callVars, pathVars>>

\* The ledger file as one value.
File == FileOf(fileState, ledger)

\* What readFileSync and writeFileSync may do in this behaviour.
ReadOutcomes == IF faults THEN BOOLEAN ELSE {TRUE}

WriteOutcomes == IF faults THEN {"ok", "refused", "torn"} ELSE {"ok"}

NoWorkflow == [steps |-> <<>>, stopOnFailure |-> TRUE]

\* ------------------------------------------------------------- provider output

\* The grave accent, which a string of the model cannot hold, and the fence
\* of a code block.
GRAVE == "grave"
FENCE == <<GRAVE, GRAVE, GRAVE>>
W_sudo == <<"s", "u", "d", "o">>
W_bash == <<"b", "a", "s", "h">>
Digits == {"0", "1", "2", "3", "4", "5", "6", "7", "8", "9"}

\* The first position >= k of s that holds no digit (Len(s)+1 if none).
RECURSIVE SkipDigits(_, _)
SkipDigits(s, k) ==
    IF k <= Len(s) /\ s[k] \in Digits THEN SkipDigits(s, k + 1) ELSE k

\* s from position k on.
From(s, k) == SubSeq(s, k, Len(s))

\* .replace(/^\d+[\.\)]\s*/, '')
StripNumber(s) ==
    LET d == SkipDigits(s, 1)
    IN  IF d > 1 /\ d <= Len(s) /\ s[d] \in {".", ")"}
        THEN From(s, SkipSpaces(s, d + 1))
        ELSE s

\* .replace(/^-\s+/, '')
StripDash(s) ==
    IF Len(s) >= 2 /\ s[1] = "-" /\ IsSpace(s[2]) THEN From(s, SkipSpaces(s, 2)) ELSE s

\* .replace(/^sudo\s+/, '')
StripSudo(s) ==
    IF StartsWithAt(s, W_sudo, 1) /\ Len(s) >= 5 /\ IsSpace(s[5])
    THEN From(s, SkipSpaces(s, 5))
    ELSE s

\* The command parseWorkflowOutput makes of a trimmed line of a code block.
StripLine(trimmed) == Trim(StripSudo(StripDash(StripNumber(trimmed))))

\* if (cmd.startsWith('git ')): only git commands are accepted.
Accepts(command) == StartsWithAt(command, GIT \o SP, 1)

\* The loop of parseWorkflowOutput over the lines of the output from line n
\* on: a line that starts with the fence opens or closes a code block, a line
\* inside one is stripped and pushed as a pending step if it is a git command.
RECURSIVE ParseLines(_, _, _, _)
ParseLines(lines, n, inCodeBlock, steps) ==
    IF n > Len(lines) THEN steps
    ELSE LET trimmed == Trim(lines[n])
         IN  IF StartsWithAt(trimmed, FENCE, 1)
             THEN ParseLines(lines, n + 1, ~inCodeBlock, steps)
             ELSE IF inCodeBlock /\ trimmed # <<>> /\ Accepts(StripLine(trimmed))
             THEN ParseLines(lines, n + 1, inCodeBlock,
                             Append(steps, [command |-> StripLine(trimmed),
                                            status |-> "pending"]))
             ELSE ParseLines(lines, n + 1, inCodeBlock, steps)

\* parseWorkflowOutput(output, description), without the explanations.
parseWorkflowOutput(lines) ==
    [steps |-> ParseLines(lines, 1, FALSE, <<>>), stopOnFailure |-> TRUE]

\* getCopilotWorkflow that returns a workflow without steps.
getCopilotWorkflow_AllowEmpty(resolved, lines) ==
    IF ~resolved THEN [threw |-> TRUE, workflow |-> NoWorkflow]
    ELSE [threw |-> FALSE, workflow |-> parseWorkflowOutput(lines)]

\* getCopilotWorkflow(query): the provider's call rejects or times out, or
\* its output is parsed; a workflow without steps is an error.
getCopilotWorkflow(resolved, lines) ==
    IF ~resolved THEN [threw |-> TRUE, workflow |-> NoWorkflow]
    ELSE LET parsed == parseWorkflowOutput(lines)
         IN  IF Len(parsed.steps) = 0
             THEN [threw |-> TRUE, workflow |-> NoWorkflow]
             ELSE [threw |-> FALSE, workflow |-> parsed]

\* Lines the provider writes inside a code block: the commands, plain,
\* numbered, as list items, indented or after sudo, and lines that are no
\* git command.
L_numbered == <<"1", ".", " ">> \o C_fetch
L_dashed == <<"-", " ">> \o C_merge
L_sudo == SP \o W_sudo \o SP \o C_pull \o SP
L_gitk == GIT \o <<"k">>
OutputLines == Commands \cup {L_numbered, L_dashed, L_sudo, L_gitk, <<>>}

\* The outputs of the provider in the model: up to MaxSteps lines in a code
\* block, and a command outside any code block.
ProviderOutputs ==
    {<<FENCE \o W_bash>> \o ls \o <<FENCE>> :
        ls \in UNION {[1..n -> OutputLines] : n \in 0..MaxSteps}}
    \cup {<<C_fetch>>}

\* The workflows getCopilotWorkflow returns to handleWorkflow.
PlannedWorkflows ==
    {getCopilotWorkflow(TRUE, out).workflow :
        out \in {o \in ProviderOutputs : ~getCopilotWorkflow(TRUE, o).threw}}

NSteps == Len(workflow.steps)

\* A command text in parts: lead GIT sep verb sep2 arg trail.
NoInput ==
    [lead |-> <<>>, sep |-> <<>>, verb |-> <<>>, sep2 |-> <<>>, arg |-> <<>>,
     trail |-> <<>>]

\* No call of the safety functions has been made.
SafetyIdle ==
    /\ safetyIn = NoInput
    /\ verdict = <<>>
    /\ reversibleOut = <<>>
    /\ resolveIn = <<>>
    /\ reversalOut = <<>>

\* Two process invocations that may be inside addLedgerEntry at once.
Writers == {1, 2}

\* A process outside addLedgerEntry, having made a number of calls of it.
IdleWriter == [phase |-> "idle", local |-> <<>>, entry |-> <<>>, t |-> 0, appends |-> 0]

\* No call of the ledger's functions has been made.
CallsIdle ==
    /\ supplied = <<>>
    /\ readOut = <<>>
    /\ lastOut = <<>>
    /\ appendThrew = FALSE
    /\ writers = [w \in Writers |-> IdleWriter]

\* Neither the single-command path nor undo has started.
PathsIdle ==
    /\ cmd = <<>>
    /\ ran = <<>>
    /\ recovery = "none"
    /\ target = <<>>
    /\ reversal = <<>>
    /\ undos = 0
    /\ provider = "idle"

Init ==
    /\ workflow = NoWorkflow
    /\ pc = "awaitWorkflow"
    /\ i = 0
    /\ completedSteps = 0
    /\ faults = FALSE
    /\ \E f \in StartFiles(faults) :
        /\ fileState = f.state
        /\ ledger = f.entries
    /\ ledger0 = ledger
    /\ now = 0
    /\ execLog = <<>>
    /\ execOutcomes = <<>>
    /\ checkLog = <<>>
    /\ abortCalls = <<>>
    /\ prompts = <<>>
    /\ reported = <<>>
    /\ summary = "none"
    /\ exitCode = -1
    /\ SafetyIdle
    /\ CallsIdle
    /\ PathsIdle

\* ------------------------------------------------------------- helpers

SetStatus(steps, idx, status) == [steps EXCEPT ![idx].status = status]

\* for (let j = i + 1; j < workflow.steps.length; j++) steps[j].status = 'skipped'
SkipRemaining_FromCurrent(steps, idx) ==
    [j \in 1..Len(steps) |->
        IF j >= idx THEN [steps[j] EXCEPT !.status = "skipped"] ELSE steps[j]]

\* A loop that leaves the remaining steps as they are.
SkipRemaining_None(steps, idx) == steps

SkipRemaining(steps, idx) ==
    [j \in 1..Len(steps) |->
        IF j > idx THEN [steps[j] EXCEPT !.status = "skipped"] ELSE steps[j]]

\* The summary printed after the loop.
Summary_PartialFirst(completed, n) ==
    IF completed > 0 THEN "partial"
    ELSE IF completed = n THEN "complete"
    ELSE "failed"

Summary(completed, n) ==
    IF completed = n THEN "complete"
    ELSE IF completed > 0 THEN "partial"
    ELSE "failed"

\* process.exit(completedSteps === workflow.steps.length ? 0 : 1)
ExitCode(completed, n) == IF completed = n THEN 0 ELSE 1

\* The Dangerous steps the safety loop flags, in step order.
RECURSIVE DangerousSteps(_, _)
DangerousSteps_None(steps, k) == <<>>

DangerousSteps(steps, k) ==
    IF k > Len(steps) THEN <<>>
    ELSE (IF analyzeCommand(steps[k].command).riskLevel = "dangerous"
          THEN <<k>> ELSE <<>>)
         \o DangerousSteps(steps, k + 1)

\* After the loop: the summary and process.exit.
Finish(steps, completed) ==
    /\ workflow' = [workflow EXCEPT !.steps = steps]
    /\ summary' = Summary(completed, Len(steps))
    /\ exitCode' = ExitCode(completed, Len(steps))
    /\ pc' = "exited"
    /\ UNCHANGED <<i, execLog>>

\* The loop test at index idx and, inside the loop, the statements up to
\* the await of execAsync(step.command).
Iterate(steps, idx, completed) ==
    IF idx <= Len(steps)
    THEN /\ workflow' = [workflow EXCEPT !.steps = SetStatus(steps, idx, "running")]
         /\ i' = idx
         /\ execLog' = Append(execLog, idx)
         /\ pc' = "awaitExec"
         /\ UNCHANGED <<summary, exitCode>>
    ELSE Finish(steps, completed)

\* if (!shouldRun) { cancelled; return }
PlanDeclined_Never(shouldRun) == FALSE

PlanDeclined(shouldRun) == ~shouldRun

\* if (shouldAbort) { await abortMerge(); ... }
AbortRequested_Always(shouldAbort) == TRUE

AbortRequested(shouldAbort) == shouldAbort

\* if (workflow.stopOnFailure) { skip the remaining steps; break }
AfterFailure_Continue(steps, completed) == Iterate(steps, i + 1, completed)

AfterFailure_Retry(steps, completed) == Iterate(steps, i, completed)

AfterFailure(steps, completed) ==
    IF workflow.stopOnFailure
    THEN Finish(SkipRemaining(steps, i), completed)
    ELSE Iterate(steps, i + 1, completed)

\* A conflict, or an abort, on the success path: skip the remaining steps; break
AfterConflict_NoBreak(steps, completed) ==
    Iterate(SkipRemaining(steps, i), i + 1, completed)

AfterConflict(steps, completed) == Finish(SkipRemaining(steps, i), completed)

CurrentCommand == workflow.steps[i].command

\* An exception that leaves handleWorkflow reaches the catch of the main
\* action (472-483): printError, process.exit(1).
Crash(steps) ==
    /\ workflow' = [workflow EXCEPT !.steps = steps]
    /\ pc' = "exited"
    /\ exitCode' = 1
    /\ UNCHANGED <<i, execLog, summary>>

\* The catch block of the loop (192-225) up to its first await, the step
\* already marked failed: addLedgerEntry(failed entry) called on the file, then
\* the conflict check of a merge/pull/rebase step or the stop on failure.
Rejected(file, steps, completed) ==
    \E readOk \in ReadOutcomes, written \in WriteOutcomes :
        LET f == addLedgerEntry(file, FailedEntry(i, NSteps, CurrentCommand), now,
                                readOk, written)
        IN  /\ ledger' = f.entries
            /\ fileState' = f.state
            /\ IF addLedgerEntryThrows(file, readOk, written)
               THEN Crash(steps)
               ELSE IF IsMergeFamily(CurrentCommand)
               THEN /\ workflow' = [workflow EXCEPT !.steps = steps]
                    /\ pc' = "awaitCheckF"
                    /\ UNCHANGED <<i, execLog, summary, exitCode>>
               ELSE AfterFailure(steps, completed)

\* A loop that starts the next step without waiting for the ledger append.
Succeeded_Unlogged(steps, completed) ==
    /\ UNCHANGED <<ledger, fileState>>
    /\ Iterate(steps, i + 1, completed)

\* addLedgerEntry(success entry) at 186, inside the try block, and the
\* loop's next turn; an exception it throws is taken by the catch block.
Succeeded(steps, completed) ==
    \E readOk \in ReadOutcomes, written \in WriteOutcomes :
        LET f == addLedgerEntry(File, SuccessEntry(i, NSteps, CurrentCommand), now,
                                readOk, written)
        IN  IF addLedgerEntryThrows(File, readOk, written)
            THEN Rejected(f, SetStatus(steps, i, "failed"), completed)
            ELSE /\ ledger' = f.entries
                 /\ fileState' = f.state
                 /\ Iterate(steps, i + 1, completed)

\* ------------------------------------------------------------- actions

\* getCopilotWorkflow returns a plan: it is shown, its Dangerous steps are
\* flagged, and the operator is asked to confirm it.
WorkflowPlanned ==
    /\ pc = "awaitWorkflow"
    /\ \E w \in PlannedWorkflows :
        /\ workflow' = w
        /\ reported' = DangerousSteps(w.steps, 1)
    /\ pc' = "awaitConfirm"
    /\ provider' = "resolved"
    /\ UNCHANGED <<i, completedSteps, ledger, fileState, ledger0, faults, safetyVars, callVars, cmd, ran,
                   recovery, target, reversal, undos, execOutcomes, now, execLog, checkLog,
                   abortCalls, prompts, summary, exitCode>>

\* getCopilotWorkflow throws: printError, process.exit(1).
WorkflowFailed ==
    /\ pc = "awaitWorkflow"
    /\ \E resolved \in BOOLEAN, out \in ProviderOutputs : getCopilotWorkflow(resolved, out).threw
    /\ pc' = "exited"
    /\ exitCode' = 1
    /\ provider' = "failed"
    /\ UNCHANGED <<workflow, i, completedSteps, ledger, fileState, ledger0, faults, safetyVars, callVars, cmd, ran,
                   recovery, target, reversal, undos, execOutcomes, now, execLog,
                   checkLog, abortCalls, prompts, reported, summary>>

\* The operator's answer to 'Run this workflow?'.
ConfirmAnswer ==
    /\ pc = "awaitConfirm"
    /\ \E shouldRun \in BOOLEAN :
        /\ prompts' = Append(prompts, [prompt |-> "workflowConfirm", answer |-> shouldRun])
        /\ IF PlanDeclined(shouldRun)
           THEN /\ pc' = "exited"
                /\ exitCode' = 0
                /\ UNCHANGED <<workflow, i, completedSteps, execLog, summary>>
           ELSE /\ completedSteps' = 0
                /\ Iterate(workflow.steps, 1, 0)
    /\ UNCHANGED <<ledger, fileState, ledger0, faults, otherVars, execOutcomes, now, checkLog, abortCalls, reported>>

\* execAsync(step.command) resolves.
ExecResolves ==
    /\ pc = "awaitExec"
    /\ LET steps == SetStatus(workflow.steps, i, "success")
           completed == completedSteps + 1
       IN  /\ completedSteps' = completed
           /\ IF IsMergeFamily(CurrentCommand)
              THEN /\ workflow' = [workflow EXCEPT !.steps = steps]
                   /\ pc' = "awaitCheckS"
                   /\ UNCHANGED <<i, ledger, fileState, execLog, summary, exitCode>>
              ELSE Succeeded(steps, completed)
    /\ execOutcomes' = Append(execOutcomes, TRUE)
    /\ UNCHANGED <<ledger0, faults, otherVars, now, checkLog, abortCalls, prompts, reported>>

\* execAsync(step.command) rejects.
ExecRejects ==
    /\ pc = "awaitExec"
    /\ Rejected(File, SetStatus(workflow.steps, i, "failed"), completedSteps)
    /\ execOutcomes' = Append(execOutcomes, FALSE)
    /\ UNCHANGED <<completedSteps, ledger0, faults, otherVars, now, checkLog, abortCalls, prompts, reported>>

\* checkConflicts() answers after a succeeded merge/pull/rebase step.
CheckConflictsS ==
    /\ pc = "awaitCheckS"
    /\ \E hasConflicts \in BOOLEAN :
        /\ checkLog' = Append(checkLog, [step |-> i, hasConflicts |-> hasConflicts])
        /\ IF hasConflicts
           THEN /\ pc' = "awaitAbortPromptS"
                /\ UNCHANGED <<workflow, i, ledger, fileState, execLog, summary, exitCode>>
           ELSE Succeeded(workflow.steps, completedSteps)
    /\ UNCHANGED <<completedSteps, ledger0, faults, otherVars, execOutcomes, now, abortCalls, prompts, reported>>

\* The operator's answer to 'Abort the merge?' after a succeeded step.
AbortAnswerS ==
    /\ pc = "awaitAbortPromptS"
    /\ \E shouldAbort \in BOOLEAN :
        /\ prompts' = Append(prompts, [prompt |-> "conflictAbort", answer |-> shouldAbort])
        /\ IF AbortRequested(shouldAbort)
           THEN /\ abortCalls' = Append(abortCalls, i)
                /\ pc' = "awaitAbortS"
                /\ UNCHANGED <<workflow, i, execLog, summary, exitCode>>
           ELSE /\ AfterConflict(workflow.steps, completedSteps)
                /\ UNCHANGED abortCalls
    /\ UNCHANGED <<completedSteps, ledger, fileState, ledger0, faults, otherVars, execOutcomes, now, checkLog, reported>>

\* abortMerge() returns (true or false: the result is not read).
AbortMergeReturnsS ==
    /\ pc = "awaitAbortS"
    /\ \E ok \in BOOLEAN : AfterConflict(workflow.steps, completedSteps)
    /\ UNCHANGED <<completedSteps, ledger, fileState, ledger0, faults, otherVars, execOutcomes, now, checkLog, abortCalls,
                   prompts, reported>>

\* checkConflicts() answers after a failed merge/pull/rebase step.
CheckConflictsF ==
    /\ pc = "awaitCheckF"
    /\ \E hasConflicts \in BOOLEAN :
        /\ checkLog' = Append(checkLog, [step |-> i, hasConflicts |-> hasConflicts])
        /\ IF hasConflicts
           THEN /\ pc' = "awaitAbortPromptF"
                /\ UNCHANGED <<workflow, i, execLog, summary, exitCode>>
           ELSE AfterFailure(workflow.steps, completedSteps)
    /\ UNCHANGED <<completedSteps, ledger, fileState, ledger0, faults, otherVars, execOutcomes, now, abortCalls, prompts, reported>>

\* The operator's answer to 'Abort the merge?' after a failed step.
AbortAnswerF ==
    /\ pc = "awaitAbortPromptF"
    /\ \E shouldAbort \in BOOLEAN :
        /\ prompts' = Append(prompts, [prompt |-> "conflictAbort", answer |-> shouldAbort])
        /\ IF AbortRequested(shouldAbort)
           THEN /\ abortCalls' = Append(abortCalls, i)
                /\ pc' = "awaitAbortF"
                /\ UNCHANGED <<workflow, i, execLog, summary, exitCode>>
           ELSE /\ AfterFailure(workflow.steps, completedSteps)
                /\ UNCHANGED abortCalls
    /\ UNCHANGED <<completedSteps, ledger, fileState, ledger0, faults, otherVars, execOutcomes, now, checkLog, reported>>

\* abortMerge() returns after a failed step.
AbortMergeReturnsF ==
    /\ pc = "awaitAbortF"
    /\ \E ok \in BOOLEAN : AfterFailure(workflow.steps, completedSteps)
    /\ UNCHANGED <<completedSteps, ledger, fileState, ledger0, faults, otherVars, execOutcomes, now, checkLog, abortCalls,
                   prompts, reported>>

\* The millisecond clock advances while the process waits.
Tick ==
    /\ pc # "exited"
    /\ now < MaxClock
    /\ now' = now + 1
    /\ UNCHANGED <<workflow, pc, i, completedSteps, ledger, fileState, ledger0, faults, otherVars, execOutcomes, execLog,
                   checkLog, abortCalls, prompts, reported, summary, exitCode>>

Next ==
    \/ WorkflowPlanned
    \/ WorkflowFailed
    \/ ConfirmAnswer
    \/ ExecResolves
    \/ ExecRejects
    \/ CheckConflictsS
    \/ AbortAnswerS
    \/ AbortMergeReturnsS
    \/ CheckConflictsF
    \/ AbortAnswerF
    \/ AbortMergeReturnsF
    \/ Tick

Spec == Init /\ [][Next]_vars

\* ------------------------------------------------------------- types

Statuses == {"pending", "running", "success", "failed", "skipped"}

TypeOK ==
    /\ pc \in {"awaitWorkflow", "awaitConfirm", "awaitExec", "awaitCheckS",
               "awaitAbortPromptS", "awaitAbortS", "awaitCheckF",
               "awaitAbortPromptF", "awaitAbortF", "exited"}
    /\ \A k \in 1..NSteps : workflow.steps[k].status \in Statuses
    /\ i \in 0..NSteps
    /\ completedSteps \in 0..NSteps
    /\ summary \in {"none", "complete", "partial", "failed"}
    /\ exitCode \in {-1, 0, 1}

\* ------------------------------------------------------------- claims

Status(k) == workflow.steps[k].status

\* The entries this invocation has added to the ledger file.
Appended == SubSeq(ledger, Len(ledger0) + 1, Len(ledger))

\* The confirmed run has reached its summary.
RunEnded == pc = "exited" /\ summary # "none"

PlanConfirmed == Len(prompts) >= 1 /\ prompts[1].answer

NoConflictsReported == \A c \in 1..Len(checkLog) : ~checkLog[c].hasConflicts

AbortAnswered(answer) ==
    \E p \in 1..Len(prompts) :
        prompts[p] = [prompt |-> "conflictAbort", answer |-> answer]

\* The commands of the model that /^git\s+(merge|pull|rebase)/ matches.
MergeFamilyCommands == {C_merge, C_pull, C_rebase_i}

\* C1: in a run that has ended with no conflicts reported, if step k is the
\* first Failed step then steps 1..k-1 are Success, steps k+1..n Skipped, and
\* the run has appended exactly k entries after the earlier ones, for steps
\* 1..k in order, k-1 of status success and the last of status failed.
C1_FirstFailure ==
    (RunEnded /\ NoConflictsReported) =>
        \A k \in 1..NSteps :
            (Status(k) = "failed" /\ \A j \in 1..(k - 1) : Status(j) # "failed") =>
                /\ \A j \in 1..(k - 1) : Status(j) = "success"
                /\ \A j \in (k + 1)..NSteps : Status(j) = "skipped"
                /\ Len(ledger) = Len(ledger0) + k
                /\ SubSeq(ledger, 1, Len(ledger0)) = ledger0
                /\ \A j \in 1..k :
                    /\ Appended[j].command = workflow.steps[j].command
                    /\ Appended[j].description.step = j
                    /\ Appended[j].status = (IF j < k THEN "success" ELSE "failed")

\* Three steps, the second failed, after a merge step whose check found no
\* conflict, on top of an earlier entry: two entries appended.
C1_Witness ==
    /\ RunEnded
    /\ NoConflictsReported
    /\ Len(checkLog) >= 1
    /\ NSteps = 3
    /\ Status(2) = "failed"
    /\ Status(3) = "skipped"
    /\ ledger0 # <<>>
    /\ Len(Appended) = 2

\* C2: once the operator has declined the plan, no step has been handed to
\* execAsync, every step is Pending and the ledger file is as it was.
C2_Declined ==
    (Len(prompts) >= 1 /\ prompts[1] = [prompt |-> "workflowConfirm", answer |-> FALSE]) =>
        /\ execLog = <<>>
        /\ \A k \in 1..NSteps : Status(k) = "pending"
        /\ ledger = ledger0
        /\ pc = "exited"

C2_Witness ==
    /\ pc = "exited"
    /\ prompts = <<[prompt |-> "workflowConfirm", answer |-> FALSE]>>
    /\ NSteps = 3
    /\ ledger0 # <<>>

\* C3: when the check after step s reported conflicts and the operator
\* answered yes to the abort prompt, abortMerge has been called exactly once
\* (after step s), no step after s has been handed to execAsync, step s is a
\* merge/pull/rebase step, and at the end every step after s is Skipped;
\* on the success path and on the failure path of step s alike.
C3_AbortYes ==
    \A c \in 1..Len(checkLog) :
        (checkLog[c].hasConflicts /\ AbortAnswered(TRUE)) =>
            LET s == checkLog[c].step
            IN  /\ workflow.steps[s].command \in MergeFamilyCommands
                /\ abortCalls = <<s>>
                /\ \A e \in 1..Len(execLog) : execLog[e] <= s
                /\ pc = "exited" => \A j \in (s + 1)..NSteps : Status(j) = "skipped"

\* A succeeded merge step with conflicts, aborted, with two steps after it.
C3_Witness ==
    /\ RunEnded
    /\ AbortAnswered(TRUE)
    /\ NSteps = 3
    /\ Status(1) = "success"
    /\ checkLog = <<[step |-> 1, hasConflicts |-> TRUE]>>
    /\ abortCalls = <<1>>
    /\ Status(2) = "skipped"
    /\ Status(3) = "skipped"

\* The same on the failure path of the merge step.
C3_WitnessFailedStep ==
    /\ RunEnded
    /\ AbortAnswered(TRUE)
    /\ NSteps = 3
    /\ Status(1) = "success"
    /\ Status(2) = "failed"
    /\ abortCalls = <<2>>
    /\ Status(3) = "skipped"

\* C4: when the check after step s reported conflicts and the operator
\* answered no to the abort prompt, abortMerge has not been called, the run
\* has ended, no step after s was handed to execAsync and every step after s
\* is Skipped (none is left Pending).
C4_AbortNo ==
    \A c \in 1..Len(checkLog) :
        (checkLog[c].hasConflicts /\ AbortAnswered(FALSE)) =>
            LET s == checkLog[c].step
            IN  /\ abortCalls = <<>>
                /\ pc = "exited"
                /\ \A e \in 1..Len(execLog) : execLog[e] <= s
                /\ \A j \in (s + 1)..NSteps : Status(j) = "skipped"
                /\ \A j \in 1..NSteps : Status(j) # "pending"

C4_Witness ==
    /\ RunEnded
    /\ AbortAnswered(FALSE)
    /\ NSteps = 3
    /\ checkLog = <<[step |-> 1, hasConflicts |-> TRUE]>>
    /\ Status(2) = "skipped"
    /\ Status(3) = "skipped"
    /\ abortCalls = <<>>

\* C5: when a confirmed run has ended, the entries it appended are, in step
\* order, one per executed step (final status Success or Failed), each with
\* the step's command and the step's final status.
C5_ExecutedStepsLogged ==
    RunEnded =>
        LET executed == {k \in 1..NSteps : Status(k) \in {"success", "failed"}}
        IN  /\ Len(Appended) = Cardinality(executed)
            /\ \A k \in executed :
                /\ k <= Len(Appended)
                /\ Appended[k].command = workflow.steps[k].command
                /\ Appended[k].status = Status(k)

\* C6: a step is Running or Success only if every earlier step is Success;
\* after a Failed step every later step is Pending or Skipped (none was
\* entered), and Skipped once the run has ended.
C6_Sequential ==
    /\ \A k \in 1..NSteps :
        Status(k) \in {"running", "success"} =>
            \A j \in 1..(k - 1) : Status(j) = "success"
    /\ \A k \in 1..NSteps :
        Status(k) = "failed" =>
            /\ \A j \in (k + 1)..NSteps : Status(j) \in {"pending", "skipped"}
            /\ \A e \in 1..Len(execLog) : execLog[e] <= k
            /\ pc = "exited" => \A j \in (k + 1)..NSteps : Status(j) = "skipped"

C6_Witness ==
    /\ RunEnded
    /\ NSteps = 3
    /\ Status(1) = "success"
    /\ Status(2) = "failed"
    /\ Status(3) = "skipped"

\* The status changes a step may make in one step of the executor.
AllowedMoves ==
    {<<"pending", "running">>, <<"running", "success">>,
     <<"running", "failed">>, <<"pending", "skipped">>}

\* C7: once planned, the workflow keeps its steps' number, order and
\* commands, and each step's status either stays or moves Pending -> Running,
\* Running -> Success, Running -> Failed or Pending -> Skipped.
C7_StatusMoves ==
    [][pc # "awaitWorkflow" =>
        /\ Len(workflow'.steps) = Len(workflow.steps)
        /\ \A k \in 1..Len(workflow.steps) :
            /\ workflow'.steps[k].command = workflow.steps[k].command
            /\ \/ workflow'.steps[k].status = workflow.steps[k].status
               \/ <<workflow.steps[k].status, workflow'.steps[k].status>> \in AllowedMoves]_vars

\* A run in which a merge step succeeded, its conflict was aborted and the
\* steps after it were skipped.
C7_Witness ==
    /\ RunEnded
    /\ NSteps = 3
    /\ Status(1) = "success"
    /\ Status(2) = "success"
    /\ Status(3) = "skipped"
    /\ abortCalls = <<2>>

NSuccess == Cardinality({k \in 1..NSteps : Status(k) = "success"})

\* C8: when a confirmed run has ended, the summary is complete exactly when
\* every step is Success, partial exactly when some but not all are, failed
\* exactly when none is; the count reported is the number of Success steps.
C8_Summary ==
    (pc = "exited" /\ PlanConfirmed) =>
        /\ summary \in {"complete", "partial", "failed"}
        /\ completedSteps = NSuccess
        /\ summary = "complete" <=> NSuccess = NSteps
        /\ summary = "partial" <=> (NSuccess > 0 /\ NSuccess < NSteps)
        /\ summary = "failed" <=> NSuccess = 0

C8_Witness ==
    /\ pc = "exited"
    /\ PlanConfirmed
    /\ NSteps = 3
    /\ summary = "partial"
    /\ completedSteps = 2

\* C9: checkConflicts is queried, the abort prompt put and abortMerge called
\* only for a step whose command matches the merge/pull/rebase pattern, and
\* only for the step just executed.
C9_CheckOnlyMergeFamily ==
    /\ \A c \in 1..Len(checkLog) :
        /\ workflow.steps[checkLog[c].step].command \in MergeFamilyCommands
        /\ Status(checkLog[c].step) \in {"success", "failed"}
    /\ \A a \in 1..Len(abortCalls) :
        workflow.steps[abortCalls[a]].command \in MergeFamilyCommands
    /\ pc \in {"awaitCheckS", "awaitCheckF", "awaitAbortPromptS",
               "awaitAbortPromptF", "awaitAbortS", "awaitAbortF"} =>
        CurrentCommand \in MergeFamilyCommands
    /\ (\A k \in 1..NSteps : workflow.steps[k].command \notin MergeFamilyCommands) =>
        /\ checkLog = <<>>
        /\ abortCalls = <<>>
        /\ ~AbortAnswered(TRUE)
        /\ ~AbortAnswered(FALSE)

\* A fetch and a forced push executed around a merge: one query, for the merge.
C9_Witness ==
    /\ RunEnded
    /\ NSteps = 3
    /\ workflow.steps[1].command = C_fetch
    /\ workflow.steps[2].command = C_merge
    /\ workflow.steps[3].command = C_push_force
    /\ Status(3) = "failed"
    /\ checkLog = <<[step |-> 2, hasConflicts |-> FALSE]>>

ChecksOf(k) == {c \in 1..Len(checkLog) : checkLog[c].step = k}

\* C10: every executed merge/pull/rebase step, succeeded or failed, has had
\* exactly one conflict query by the time the run is at a later step or at
\* its end, and none more than one at any time.
C10_CheckEveryMergeFamily ==
    \A k \in 1..NSteps :
        /\ Cardinality(ChecksOf(k)) <= 1
        /\ ( /\ workflow.steps[k].command \in MergeFamilyCommands
             /\ Status(k) \in {"success", "failed"}
             /\ (k < i \/ pc = "exited") ) =>
                Cardinality(ChecksOf(k)) = 1

\* A succeeded pull and then a failed rebase, each queried once.
C10_Witness ==
    /\ RunEnded
    /\ NSteps = 2
    /\ workflow.steps[1].command = C_pull
    /\ workflow.steps[2].command = C_rebase_i
    /\ Status(1) = "success"
    /\ Status(2) = "failed"
    /\ Len(checkLog) = 2
    /\ checkLog[1].step = 1
    /\ checkLog[2].step = 2

\* C11: no step is handed to execAsync twice in a run: the calls made so far
\* are for steps 1, 2, ... in order, each once, and a step that is Success,
\* Failed or Skipped is not the one being waited for again.
C11_ExecutedAtMostOnce ==
    /\ \A a, b \in 1..Len(execLog) : a # b => execLog[a] # execLog[b]
    /\ \A a \in 1..Len(execLog) : execLog[a] = a
    /\ pc = "awaitExec" => (Status(i) = "running" /\ i = Len(execLog))

\* Three steps executed, the last one failed, and the run ended there.
C11_Witness ==
    /\ RunEnded
    /\ execLog = <<1, 2, 3>>
    /\ Status(1) = "success"
    /\ Status(2) = "success"
    /\ Status(3) = "failed"

\* ------------------------------------------------------------- safety functions

storeVars == <<ledger, fileState, faults, now>>

\* No workflow has been asked for.
WorkflowIdle ==
    /\ workflow = NoWorkflow
    /\ pc = "awaitWorkflow"
    /\ i = 0
    /\ completedSteps = 0
    /\ execLog = <<>>
    /\ execOutcomes = <<>>
    /\ checkLog = <<>>
    /\ abortCalls = <<>>
    /\ prompts = <<>>
    /\ reported = <<>>
    /\ summary = "none"
    /\ exitCode = -1

\* The parts the command texts handed to analyzeCommand are built from.
W_pushx == W_push \o W_x
F_force_x == F_force \o <<"-">> \o W_x
A_soft_head2 == F_soft \o SP \o W_HEAD \o W_tilde \o W_two

Leads == {<<>>, SP}
Seps == {<<>>, SP, TAB \o SP}
Verbs == {W_reset, W_push, W_pushx, W_rebase, W_clean, W_rm, W_merge,
          W_checkout, W_add, W_commit, W_branch}
Args == {F_hard, F_force, F_force_x, F_i, F_fd, F_r, W_x, A_soft_head2, F_D}
Trails == {<<>>, SP}

SafetyInputs ==
    { [lead |-> l, sep |-> s, verb |-> v, sep2 |-> s2, arg |-> a, trail |-> t] :
        l \in Leads, s \in Seps, v \in Verbs, s2 \in {<<>>, SP},
        a \in Args \cup {<<>>}, t \in Trails }

\* The text of a command given in parts.
Text(c) == c.lead \o GIT \o c.sep \o c.verb \o c.sep2 \o c.arg \o c.trail

\* The texts handed to getReversalCommand.
R_reset_soft2 == GIT \o SP \o W_reset \o SP \o A_soft_head2
R_reset_head == GIT \o SP \o W_reset \o SP \o W_HEAD \o SP \o W_x
R_revert == GIT \o SP \o W_revert \o SP \o W_x
R_x_revert == W_x \o SP \o GIT \o SP \o W_revert
R_revert_then_reset == GIT \o SP \o W_revert \o SP \o GIT \o SP \o W_reset \o SP \o W_HEAD
R_soft_then_reset ==
    GIT \o SP \o W_reset \o SP \o F_soft \o SP \o W_HEAD \o W_tilde \o SP
    \o GIT \o SP \o W_reset \o SP \o W_HEAD
R_commit_m_x == GIT \o SP \o W_commit \o SP \o F_m \o SP \o W_x
R_reset_2sp_head == GIT \o SP \o W_reset \o SP \o SP \o W_HEAD
R_reset_hard == GIT \o SP \o W_reset \o SP \o F_hard
R_reset_soft_head == GIT \o SP \o W_reset \o SP \o F_soft \o SP \o W_HEAD
R_empty == <<>>

ResolveInputs ==
    {R_reset_soft2, R_reset_head, R_revert, R_x_revert, R_revert_then_reset,
     R_soft_then_reset, R_commit_m_x, R_reset_2sp_head, R_reset_hard,
     R_reset_soft_head, R_empty}

InitSafety ==
    /\ WorkflowIdle
    /\ faults = FALSE
    /\ fileState = "missing"
    /\ ledger = <<>>
    /\ ledger0 = <<>>
    /\ now = 0
    /\ CallsIdle
    /\ PathsIdle
    /\ safetyIn \in SafetyInputs
    /\ verdict = <<>>
    /\ reversibleOut = <<>>
    /\ resolveIn = <<>>
    /\ reversalOut = <<>>

\* analyzeCommand(command) is called.
Classify ==
    /\ safetyIn # NoInput
    /\ verdict = <<>>
    /\ verdict' = Some(analyzeCommand(Text(safetyIn)))
    /\ UNCHANGED <<workflowVars, storeVars, callVars, pathVars, safetyIn, reversibleOut,
                   resolveIn, reversalOut>>

\* isReversible(command) is called.
CheckReversible ==
    /\ safetyIn # NoInput
    /\ reversibleOut = <<>>
    /\ reversibleOut' = Some(isReversible(Text(safetyIn)))
    /\ UNCHANGED <<workflowVars, storeVars, callVars, pathVars, safetyIn, verdict,
                   resolveIn, reversalOut>>

\* getReversalCommand(command) is called.
Resolve ==
    /\ safetyIn # NoInput
    /\ reversalOut = <<>>
    /\ \E c \in ResolveInputs :
        /\ resolveIn' = Some(c)
        /\ reversalOut' = Some(getReversalCommand(c))
    /\ UNCHANGED <<workflowVars, storeVars, callVars, pathVars, safetyIn, verdict,
                   reversibleOut>>

NextSafety ==
    \/ Classify
    \/ CheckReversible
    \/ Resolve

SpecSafety == InitSafety /\ [][NextSafety]_vars

\* What the patterns of constants.ts and safety.ts say of a command in parts:
\* git, white space, the verb, and for a Dangerous one white space and a flag.
DangerPairs ==
    {<<W_reset, F_hard>>, <<W_push, F_force>>, <<W_push, F_force_x>>,
     <<W_rebase, F_i>>, <<W_clean, F_fd>>, <<W_rm, F_r>>}

ExpectDangerous(c) ==
    /\ c.sep # <<>>
    /\ c.sep2 # <<>>
    /\ <<c.verb, c.arg>> \in DangerPairs

ExpectWarning(c) ==
    /\ ~ExpectDangerous(c)
    /\ c.sep # <<>>
    /\ c.verb \in {W_push, W_pushx, W_rebase}

\* C12: a command whose trimmed text starts with a Dangerous pattern is
\* classified Dangerous with reversible false, also when a Warning rule
\* (git push, git rebase) matches it too.
C12_Dangerous ==
    (verdict # <<>> /\ ExpectDangerous(safetyIn)) =>
        /\ verdict[1].riskLevel = "dangerous"
        /\ verdict[1].reversible = FALSE

\* ' git push --force' with white space around it, classified.
C12_Witness ==
    /\ verdict # <<>>
    /\ safetyIn.lead = SP
    /\ safetyIn.verb = W_push
    /\ safetyIn.arg = F_force
    /\ safetyIn.sep = TAB \o SP
    /\ safetyIn.sep2 = SP
    /\ verdict[1].riskLevel = "dangerous"

\* C13: a command that matches no Dangerous pattern and whose trimmed text
\* starts with git push or git rebase is classified Warning, reversible.
C13_Warning ==
    (verdict # <<>> /\ ExpectWarning(safetyIn)) =>
        /\ verdict[1].riskLevel = "warning"
        /\ verdict[1].reversible = TRUE

\* ' git rebase-i': no white space before the flag, so no Dangerous pattern;
\* the rebase rule applies.
C13_Witness ==
    /\ verdict # <<>>
    /\ safetyIn.lead = SP
    /\ safetyIn.verb = W_rebase
    /\ safetyIn.sep2 = <<>>
    /\ safetyIn.arg = F_i
    /\ verdict[1].riskLevel = "warning"
    /\ verdict[1].reversible

\* C14: a command that matches neither a Dangerous pattern nor a Warning rule
\* is classified Safe, reversible, with no affected items, also when it is a
\* checkout, an add or an rm with an argument.
C14_Safe ==
    (verdict # <<>> /\ ~ExpectDangerous(safetyIn) /\ ~ExpectWarning(safetyIn)) =>
        /\ verdict[1].riskLevel = "safe"
        /\ verdict[1].reversible = TRUE
        /\ verdict[1].affectedItems = <<>>

\* 'git checkout x', classified.
C14_Witness ==
    /\ verdict # <<>>
    /\ safetyIn.sep = SP
    /\ safetyIn.verb = W_checkout
    /\ safetyIn.sep2 = SP
    /\ safetyIn.arg = W_x
    /\ verdict[1].riskLevel = "safe"
    /\ verdict[1].affectedItems = <<>>

\* C15: for the same command, isReversible returns what analyzeCommand
\* returns as reversible, which is that the risk level is not Dangerous.
C15_ReversibleAgrees ==
    (verdict # <<>> /\ reversibleOut # <<>>) =>
        /\ reversibleOut[1] = (verdict[1].riskLevel # "dangerous")
        /\ reversibleOut[1] = verdict[1].reversible

\* A Dangerous command with white space before and after it.
C15_Witness ==
    /\ verdict # <<>>
    /\ reversibleOut = <<FALSE>>
    /\ safetyIn.lead = SP
    /\ safetyIn.trail = SP
    /\ verdict[1].riskLevel = "dangerous"

\* The entries of the table whose trigger occurs somewhere in the text.
Contains(text, trigger) ==
    \E k \in 1..Len(text) :
        /\ k + Len(trigger) - 1 <= Len(text)
        /\ SubSeq(text, k, k + Len(trigger) - 1) = trigger

Triggered(text) ==
    {n \in 1..Len(REVERSIBLE_OPERATIONS) : Contains(text, REVERSIBLE_OPERATIONS[n][1])}

FirstTriggered(text) ==
    CHOOSE n \in Triggered(text) : \A m \in Triggered(text) : n <= m

\* C16: getReversalCommand returns the reversal of the first entry, in table
\* order, whose trigger occurs anywhere in the command, and none when no
\* trigger occurs in it.
C16_FirstContainedTrigger ==
    reversalOut # <<>> =>
        IF Triggered(resolveIn[1]) = {}
        THEN reversalOut[1] = Undefined
        ELSE reversalOut[1] = Some(REVERSIBLE_OPERATIONS[FirstTriggered(resolveIn[1])][2])

\* 'git revert git reset HEAD': the second and third triggers occur, the third
\* one first in the text and not at its start; the second entry's reversal wins.
C16_Witness ==
    /\ resolveIn = Some(R_revert_then_reset)
    /\ Triggered(R_revert_then_reset) = {2, 3}
    /\ reversalOut = Some(Some(GIT \o SP \o W_add))

\* C17 as stated: a call of getReversalCommand('git commit -m x') made after
\* analyzeCommand('git reset --soft HEAD~2') returns 'git commit'.
C17_CommitAfterClassify ==
    [][(/\ verdict # <<>>
        /\ Text(safetyIn) = R_reset_soft2
        /\ reversalOut = <<>>
        /\ resolveIn' = Some(R_commit_m_x)
        /\ reversalOut' # <<>>)
       => reversalOut'[1] = Some(GIT \o SP \o W_commit)]_vars

\* C17, amended: getReversalCommand('git reset --soft HEAD~2') returns
\* 'git commit', the trigger 'git reset --soft HEAD~' being part of it, and
\* getReversalCommand('git commit -m x') returns none, whether or not
\* analyzeCommand was called on 'git reset --soft HEAD~2' before.
C17_ResetSoftResolves ==
    reversalOut # <<>> =>
        /\ resolveIn = Some(R_reset_soft2) => reversalOut[1] = Some(GIT \o SP \o W_commit)
        /\ resolveIn = Some(R_commit_m_x) => reversalOut[1] = Undefined

\* 'git reset --soft HEAD~2' was classified and then resolved.
C17_Witness ==
    /\ verdict # <<>>
    /\ Text(safetyIn) = R_reset_soft2
    /\ resolveIn = Some(R_reset_soft2)
    /\ reversalOut = Some(Some(GIT \o SP \o W_commit))

\* ------------------------------------------------------------- the ledger alone

\* The entries handed to addLedgerEntry.
LedgerInputs ==
    {SingleEntry(C_status), SingleEntry(C_push_force), FailedEntry(1, 2, C_merge)}

InitLedger ==
    /\ WorkflowIdle
    /\ SafetyIdle
    /\ CallsIdle
    /\ PathsIdle
    /\ faults \in BOOLEAN
    /\ \E f \in StartFiles(faults) :
        /\ ledger = f.entries
        /\ fileState = f.state
    /\ ledger0 = ledger
    /\ now = 0

\* addLedgerEntry(entry) is called.
AppendEntry ==
    /\ Len(supplied) < MaxAppends
    /\ \E entry \in LedgerInputs, readOk \in ReadOutcomes, written \in WriteOutcomes :
        LET f == addLedgerEntry(File, entry, now, readOk, written)
        IN  /\ ledger' = f.entries
            /\ fileState' = f.state
            /\ appendThrew' = (appendThrew \/ addLedgerEntryThrows(File, readOk, written))
            /\ supplied' = Append(supplied, [entry |-> entry, t |-> now])
    /\ readOut' = <<>>
    /\ lastOut' = <<>>
    /\ UNCHANGED <<workflowVars, safetyVars, pathVars, faults, now, writers>>

\* getLedger() is called.
ReadAll ==
    /\ readOut = <<>>
    /\ \E readOk \in ReadOutcomes :
        LET got == getLedger(File, readOk)
        IN  readOut' = Some([array |-> got.array, entries |-> got.entries,
                             readOk |-> readOk])
    /\ UNCHANGED <<workflowVars, safetyVars, pathVars, storeVars, supplied, lastOut, appendThrew, writers>>

\* getLastCommand() is called.
LastEntry ==
    /\ lastOut = <<>>
    /\ \E readOk \in ReadOutcomes :
        LET got == getLastCommand(File, readOk)
        IN  lastOut' = Some([threw |-> got.threw, entry |-> got.entry,
                             readOk |-> readOk])
    /\ UNCHANGED <<workflowVars, safetyVars, pathVars, storeVars, supplied, readOut, appendThrew, writers>>

NextLedger ==
    \/ AppendEntry
    \/ ReadAll
    \/ LastEntry
    \/ Tick

SpecLedger == InitLedger /\ [][NextLedger]_vars

\* C18: where the ledger file is missing or holds an array and reads and
\* writes do not fail, getLedger() after N calls of addLedgerEntry returns the
\* entries the file held at the start followed by N entries, in the order of
\* the calls, each with the description, command, status and reversalCommand
\* of its call and with an id and a timestamp generated at the call.
C18_RoundTrip ==
    (~faults /\ readOut # <<>>) =>
        LET got == readOut[1].entries
            n0 == Len(ledger0)
        IN  /\ readOut[1].array
            /\ Len(got) = n0 + Len(supplied)
            /\ SubSeq(got, 1, n0) = ledger0
            /\ \A k \in 1..Len(supplied) :
                /\ got[n0 + k].description = supplied[k].entry.description
                /\ got[n0 + k].command = supplied[k].entry.command
                /\ got[n0 + k].status = supplied[k].entry.status
                /\ got[n0 + k].reversalCommand = supplied[k].entry.reversalCommand
                /\ got[n0 + k].id = supplied[k].t
                /\ got[n0 + k].timestamp = supplied[k].t

\* Three different entries appended to a file that held one, then read.
C18_Witness ==
    /\ ~faults
    /\ ledger0 = <<PriorEntry>>
    /\ Len(supplied) = 3
    /\ supplied[1].entry = SingleEntry(C_status)
    /\ supplied[2].entry = FailedEntry(1, 2, C_merge)
    /\ supplied[3].entry = SingleEntry(C_push_force)
    /\ readOut # <<>>
    /\ Len(readOut[1].entries) = 4

\* The entries of the first sequence are the first entries of the second.
IsPrefix(s, t) == Len(s) <= Len(t) /\ SubSeq(t, 1, Len(s)) = s

\* C19: a call of addLedgerEntry leaves the entries the file held before it
\* as the first entries of the file, unchanged, also when the read inside
\* the call fails.
C19_AppendOnly ==
    [][supplied' # supplied => IsPrefix(ledger, ledger')]_vars

\* C20: any two different entries of the ledger file have different ids.
C20_DistinctIds ==
    \A a, b \in 1..Len(ledger) : a # b => ledger[a].id # ledger[b].id

\* C21: getLedger returns an empty sequence when the ledger file is missing,
\* cannot be read or does not parse; getLastCommand then returns none without
\* throwing; and no call of addLedgerEntry throws to its caller.
C21_ReadersTolerate ==
    /\ (readOut # <<>> /\ (fileState \in {"missing", "malformed"} \/ ~readOut[1].readOk)) =>
        (readOut[1].array /\ readOut[1].entries = <<>>)
    /\ (lastOut # <<>> /\ (fileState \in {"missing", "malformed"} \/ ~lastOut[1].readOk)) =>
        (~lastOut[1].threw /\ lastOut[1].entry = Undefined)
    /\ ~appendThrew

\* The write of an append left the file unparseable; both readers then
\* answered as for an empty ledger.
C21_Witness ==
    /\ supplied # <<>>
    /\ fileState = "malformed"
    /\ readOut # <<>>
    /\ readOut[1].entries = <<>>
    /\ lastOut # <<>>
    /\ lastOut[1].entry = Undefined
    /\ ~lastOut[1].threw

\* ------------------------------------------------------------- the single-command path

W_origin == <<"o", "r", "i", "g", "i", "n", "/">>
F_b == <<"-", "b">>
F_amend == <<"-", "-", "a", "m", "e", "n", "d">>
F_A == <<"-", "A">>
QUOTE == <<"\"">>
BACKSLASH == <<"\\">>

\* Commands the suggestion provider answers a single query with in the model:
\* Safe, Warning and Dangerous ones, commits, a checkout, texts that are no
\* git command.
S_status_padded == SP \o C_status \o SP
S_push == GIT \o SP \o W_push
S_commit == GIT \o SP \o W_commit
S_commit_m == GIT \o SP \o W_commit \o SP \o F_m \o SP \o QUOTE \o W_x \o QUOTE
S_commit_amend_m ==
    GIT \o SP \o W_commit \o SP \o F_amend \o SP \o F_m \o SP \o QUOTE \o W_x \o QUOTE
S_checkout == GIT \o SP \o W_checkout \o SP \o W_x
S_add_A == GIT \o SP \o W_add \o SP \o F_A

SingleSuggestions ==
    {S_status_padded, S_push, R_reset_hard, C_push_force, S_commit, S_commit_m,
     S_commit_amend_m, S_checkout, R_revert, R_reset_soft2, W_x, <<>>}

\* What the operator types at the commit message prompt.
Messages == {<<>>, W_x, QUOTE}

\* !suggestion.command || ... || !suggestion.command.trim().startsWith('git ')
NoCommand(suggested) == ~StartsWithAt(Trim(suggested), GIT \o SP, 1)

\* /-m\s+["']/.test(command)
HasMessageFlag(command) ==
    \E k \in 1..Len(command) :
        /\ StartsWithAt(command, F_m, k)
        /\ k + 2 <= Len(command)
        /\ IsSpace(command[k + 2])
        /\ LET j == SkipSpaces(command, k + 2)
           IN  j <= Len(command) /\ command[j] \in {"\"", "'"}

\* message.replace(/"/g, '\\"')
RECURSIVE EscapeQuotes(_)
EscapeQuotes(message) ==
    IF message = <<>> THEN <<>>
    ELSE (IF Head(message) = "\"" THEN BACKSLASH \o QUOTE ELSE <<Head(message)>>)
         \o EscapeQuotes(Tail(message))

\* `git commit -m "${safeMessage}"`
CommitWith(message) ==
    GIT \o SP \o W_commit \o SP \o F_m \o SP \o QUOTE \o EscapeQuotes(message) \o QUOTE

\* /(?:checkout|switch)\s+(?:-b\s+)?([^\s]+)/ tried at position p: the capture.
TargetBranchAt(s, p) ==
    LET w == IF StartsWithAt(s, W_checkout, p) THEN W_checkout
             ELSE IF StartsWithAt(s, W_switch, p) THEN W_switch
             ELSE <<>>
        k2 == p + Len(w)
        j == SkipSpaces(s, k2)
        j2 == SkipSpaces(s, j + 2)
    IN  IF w # <<>> /\ k2 <= Len(s) /\ IsSpace(s[k2]) /\ j <= Len(s)
        THEN IF StartsWithAt(s, F_b, j) /\ j + 2 <= Len(s) /\ IsSpace(s[j + 2])
                /\ j2 <= Len(s)
             THEN Some(SubSeq(s, j2, TokenEnd(s, j2)))
             ELSE Some(SubSeq(s, j, TokenEnd(s, j)))
        ELSE Undefined

RECURSIVE TargetBranch(_, _)
TargetBranch(s, p) ==
    IF p > Len(s) THEN Undefined
    ELSE IF TargetBranchAt(s, p) # Undefined THEN TargetBranchAt(s, p)
    ELSE TargetBranch(s, p + 1)

\* `git checkout -b ${targetBranch} origin/${targetBranch}` and
\* `git checkout -b ${targetBranch}`
RecoveryCommand(kind, branch) ==
    GIT \o SP \o W_checkout \o SP \o F_b \o SP \o branch
    \o (IF kind = "track" THEN SP \o W_origin \o branch ELSE <<>>)

\* The entries the single-command path hands to addLedgerEntry after a
\* failed command and after a recovered checkout.
SingleFailedEntry(command) ==
    [description |-> [kind |-> "single", step |-> 0, of |-> 0],
     command |-> command,
     status |-> "failed",
     reversalCommand |-> Undefined]

RecoveryEntry(command) ==
    [description |-> [kind |-> "single", step |-> 0, of |-> 0],
     command |-> command,
     status |-> "success",
     reversalCommand |-> Undefined]

\* A process that ends with code 0 whatever it was given.
Exit_Zero(code) ==
    /\ pc' = "exited"
    /\ exitCode' = 0

\* The action returns, or calls process.exit(code): the process ends.
Exit(code) ==
    /\ pc' = "exited"
    /\ exitCode' = code

\* An answer that is never taken as a no.
Declined_Never(answer) == FALSE

\* A yes taken as a no and a no as a yes.
Declined_Inverted(answer) == answer

\* if (!proceed) return, if (!shouldRun) return, ...
Declined(answer) == ~answer

\* Lines 363-384 up to the next await: the status query of a commit that is
\* no amend, else the run confirmation.
ToCommitCheck(command) ==
    IF StartsWithAt(command, GIT \o SP \o W_commit, 1) /\ ~Includes(command, F_amend)
    THEN pc' = "awaitStatus" /\ UNCHANGED exitCode
    ELSE pc' = "awaitRun" /\ UNCHANGED exitCode

\* Lines 353-384 up to the next await: the message prompt of a commit that
\* carries no message.
ToMessage(command) ==
    IF Test(<<GIT, W_commit>>, command) /\ ~HasMessageFlag(command)
    THEN pc' = "awaitMessage" /\ UNCHANGED exitCode
    ELSE ToCommitCheck(command)

\* What the single-command path leaves alone.
singleIdle == <<workflow, i, completedSteps, ledger0, execLog, checkLog, abortCalls,
                reported, summary, faults, now, safetyVars, callVars, target,
                reversal, undos>>

\* getCopilotSuggestion resolves: the command is shown, checked and analysed.
SuggestionArrives ==
    /\ pc = "awaitSuggestion"
    /\ \E suggested \in SingleSuggestions :
        IF NoCommand(suggested)
        THEN Exit(0) /\ UNCHANGED cmd
        ELSE /\ cmd' = Trim(suggested)
             /\ IF analyzeCommand(Trim(suggested)).riskLevel # "safe"
                THEN pc' = "awaitPreview" /\ UNCHANGED exitCode
                ELSE ToMessage(Trim(suggested))
    /\ provider' = "resolved"
    /\ UNCHANGED <<singleIdle, ledger, fileState, execOutcomes, prompts, ran, recovery>>

\* getCopilotSuggestion rejects: printError, process.exit(1).
SuggestionFails ==
    /\ pc = "awaitSuggestion"
    /\ Exit(1)
    /\ provider' = "failed"
    /\ UNCHANGED <<singleIdle, ledger, fileState, execOutcomes, prompts, cmd, ran, recovery>>

\* showRiskPreview returns (it catches what its queries throw).
PreviewDone ==
    /\ pc = "awaitPreview"
    /\ IF ~isReversible(cmd)
       THEN pc' = "awaitProceed" /\ UNCHANGED exitCode
       ELSE ToMessage(cmd)
    /\ UNCHANGED <<singleIdle, provider, ledger, fileState, execOutcomes, prompts, cmd, ran, recovery>>

\* The operator's answer to 'This operation cannot be undone. Proceed?'.
ProceedAnswer ==
    /\ pc = "awaitProceed"
    /\ \E proceed \in BOOLEAN :
        /\ prompts' = Append(prompts, [prompt |-> "cannotBeUndone", answer |-> proceed])
        /\ IF Declined(proceed) THEN Exit(0) ELSE ToMessage(cmd)
    /\ UNCHANGED <<singleIdle, provider, ledger, fileState, execOutcomes, cmd, ran, recovery>>

\* The operator's commit message.
MessageEntered ==
    /\ pc = "awaitMessage"
    /\ \E message \in Messages :
        /\ prompts' = Append(prompts, [prompt |-> "commitMessage", answer |-> message # <<>>])
        /\ IF message = <<>>
           THEN Exit(0) /\ UNCHANGED cmd
           ELSE /\ cmd' = CommitWith(message)
                /\ ToCommitCheck(CommitWith(message))
    /\ UNCHANGED <<singleIdle, provider, ledger, fileState, execOutcomes, ran, recovery>>

\* getRepoStatus resolves.
StatusArrives ==
    /\ pc = "awaitStatus"
    /\ \E hasChanges \in BOOLEAN, staged \in BOOLEAN :
        /\ staged => hasChanges
        /\ IF ~hasChanges THEN Exit(0)
           ELSE IF ~staged THEN pc' = "awaitStageAll" /\ UNCHANGED exitCode
           ELSE pc' = "awaitRun" /\ UNCHANGED exitCode
    /\ UNCHANGED <<singleIdle, provider, ledger, fileState, execOutcomes, prompts, cmd, ran, recovery>>

\* getRepoStatus rejects: the catch of the action (472-483), process.exit(1).
StatusFails ==
    /\ pc = "awaitStatus"
    /\ Exit(1)
    /\ UNCHANGED <<singleIdle, provider, ledger, fileState, execOutcomes, prompts, cmd, ran, recovery>>

\* The operator's answer to 'Stage all changes?'.
StageAllAnswer ==
    /\ pc = "awaitStageAll"
    /\ \E stageAll \in BOOLEAN :
        /\ prompts' = Append(prompts, [prompt |-> "stageAll", answer |-> stageAll])
        /\ IF Declined(stageAll)
           THEN Exit(0) /\ UNCHANGED ran
           ELSE /\ ran' = Append(ran, S_add_A)
                /\ pc' = "awaitStage"
                /\ UNCHANGED exitCode
    /\ UNCHANGED <<singleIdle, provider, ledger, fileState, execOutcomes, cmd, recovery>>

\* execAsync('git add -A') resolves.
StageResolves ==
    /\ pc = "awaitStage"
    /\ pc' = "awaitRun"
    /\ UNCHANGED <<singleIdle, provider, ledger, fileState, execOutcomes, prompts, cmd, ran, recovery,
                   exitCode>>

\* execAsync('git add -A') rejects: the catch of the action, process.exit(1).
StageRejects ==
    /\ pc = "awaitStage"
    /\ Exit(1)
    /\ UNCHANGED <<singleIdle, provider, ledger, fileState, execOutcomes, prompts, cmd, ran, recovery>>

\* The operator's answer to 'Run this command?'.
RunAnswer ==
    /\ pc = "awaitRun"
    /\ \E shouldRun \in BOOLEAN :
        /\ prompts' = Append(prompts, [prompt |-> "confirmRun", answer |-> shouldRun])
        /\ IF Declined(shouldRun)
           THEN Exit(0) /\ UNCHANGED ran
           ELSE /\ ran' = Append(ran, cmd)
                /\ pc' = "awaitExecSingle"
                /\ UNCHANGED exitCode
    /\ UNCHANGED <<singleIdle, provider, ledger, fileState, execOutcomes, cmd, recovery>>

\* Lines 459-470: the failure is printed and logged, and the action returns;
\* an exception of addLedgerEntry reaches the catch of the action.
LogFailure(file) ==
    \E readOk \in ReadOutcomes, written \in WriteOutcomes :
        LET f == addLedgerEntry(file, SingleFailedEntry(cmd), now, readOk, written)
        IN  /\ ledger' = f.entries
            /\ fileState' = f.state
            /\ Exit(IF addLedgerEntryThrows(file, readOk, written) THEN 1 ELSE 0)

\* The catch block at 410 up to its first await: the branch recovery of a
\* checkout or switch whose branch does not exist, else the failure.
SingleRejected(file, branchMissing) ==
    IF /\ \E w \in {W_checkout, W_switch} : Test(<<GIT, w>>, cmd)
       /\ branchMissing
       /\ TargetBranch(cmd, 1) # Undefined
    THEN /\ pc' = "awaitRemotes"
         /\ ledger' = file.entries
         /\ fileState' = file.state
         /\ UNCHANGED exitCode
    ELSE LogFailure(file)

\* execAsync(command) resolves: the entry is logged, process.exit(0). An
\* exception of addLedgerEntry is taken by the catch block at 410.
SingleExecResolves ==
    /\ pc = "awaitExecSingle"
    /\ \E readOk \in ReadOutcomes, written \in WriteOutcomes :
        LET f == addLedgerEntry(File, SingleEntry(cmd), now, readOk, written)
        IN  IF addLedgerEntryThrows(File, readOk, written)
            THEN SingleRejected(f, FALSE)
            ELSE /\ ledger' = f.entries
                 /\ fileState' = f.state
                 /\ Exit(0)
    /\ execOutcomes' = Append(execOutcomes, TRUE)
    /\ UNCHANGED <<singleIdle, provider, prompts, cmd, ran, recovery>>

\* execAsync(command) rejects, with an error text that names a missing
\* branch or not.
SingleExecRejects ==
    /\ pc = "awaitExecSingle"
    /\ \E branchMissing \in BOOLEAN : SingleRejected(File, branchMissing)
    /\ execOutcomes' = Append(execOutcomes, FALSE)
    /\ UNCHANGED <<singleIdle, provider, prompts, cmd, ran, recovery>>

\* listRemoteBranches returns, with the branch among them or not.
RemotesListed ==
    /\ pc = "awaitRemotes"
    /\ \E found \in BOOLEAN :
        IF found
        THEN pc' = "awaitRecoveryAnswer" /\ recovery' = "track"
        ELSE pc' = "awaitLocals" /\ UNCHANGED recovery
    /\ UNCHANGED <<singleIdle, provider, ledger, fileState, execOutcomes, prompts, cmd, ran, exitCode>>

\* listLocalBranches returns.
LocalsListed ==
    /\ pc = "awaitLocals"
    /\ pc' = "awaitRecoveryAnswer"
    /\ recovery' = "create"
    /\ UNCHANGED <<singleIdle, provider, ledger, fileState, execOutcomes, prompts, cmd, ran, exitCode>>

\* The operator's answer to 'Create local branch tracking origin/...?' or
\* 'Create new branch ...?'.
RecoveryAnswer ==
    /\ pc = "awaitRecoveryAnswer"
    /\ \E create \in BOOLEAN :
        /\ prompts' = Append(prompts, [prompt |-> recovery, answer |-> create])
        /\ IF Declined(create)
           THEN LogFailure(File) /\ UNCHANGED ran
           ELSE /\ ran' = Append(ran, RecoveryCommand(recovery, TargetBranch(cmd, 1)[1]))
                /\ pc' = "awaitRecoveryExec"
                /\ UNCHANGED <<ledger, fileState, exitCode>>
    /\ UNCHANGED <<singleIdle, provider, execOutcomes, cmd, recovery>>

\* execAsync of the recovery command resolves: the entry is logged,
\* process.exit(0). An exception of addLedgerEntry is taken by catch (e2).
RecoveryExecResolves ==
    /\ pc = "awaitRecoveryExec"
    /\ \E readOk \in ReadOutcomes, written \in WriteOutcomes :
        LET f == addLedgerEntry(File, RecoveryEntry(ran[Len(ran)]), now, readOk, written)
        IN  IF addLedgerEntryThrows(File, readOk, written)
            THEN LogFailure(f)
            ELSE /\ ledger' = f.entries
                 /\ fileState' = f.state
                 /\ Exit(0)
    /\ UNCHANGED <<singleIdle, provider, execOutcomes, prompts, cmd, ran, recovery>>

\* execAsync of the recovery command rejects.
RecoveryExecRejects ==
    /\ pc = "awaitRecoveryExec"
    /\ LogFailure(File)
    /\ UNCHANGED <<singleIdle, provider, execOutcomes, prompts, cmd, ran, recovery>>

NextSingle ==
    \/ SuggestionArrives
    \/ SuggestionFails
    \/ PreviewDone
    \/ ProceedAnswer
    \/ MessageEntered
    \/ StatusArrives
    \/ StatusFails
    \/ StageAllAnswer
    \/ StageResolves
    \/ StageRejects
    \/ RunAnswer
    \/ SingleExecResolves
    \/ SingleExecRejects
    \/ RemotesListed
    \/ LocalsListed
    \/ RecoveryAnswer
    \/ RecoveryExecResolves
    \/ RecoveryExecRejects
    \/ Tick

\* A query that is no workflow query was asked, with a ledger file that
\* reads and writes, or one that may fail.
InitSingle ==
    /\ workflow = NoWorkflow
    /\ pc = "awaitSuggestion"
    /\ i = 0
    /\ completedSteps = 0
    /\ execLog = <<>>
    /\ execOutcomes = <<>>
    /\ checkLog = <<>>
    /\ abortCalls = <<>>
    /\ prompts = <<>>
    /\ reported = <<>>
    /\ summary = "none"
    /\ exitCode = -1
    /\ faults \in BOOLEAN
    /\ \E f \in StartFiles(faults) :
        /\ fileState = f.state
        /\ ledger = f.entries
    /\ ledger0 = ledger
    /\ now = 0
    /\ SafetyIdle
    /\ CallsIdle
    /\ PathsIdle

SpecSingle == InitSingle /\ [][NextSingle]_vars

\* ------------------------------------------------------------- runs on a failing ledger

\* A workflow query or a single-command query was asked, and reads and writes
\* of the ledger file may fail.
InitFaulty ==
    /\ workflow = NoWorkflow
    /\ pc \in {"awaitWorkflow", "awaitSuggestion"}
    /\ i = 0
    /\ completedSteps = 0
    /\ execLog = <<>>
    /\ execOutcomes = <<>>
    /\ checkLog = <<>>
    /\ abortCalls = <<>>
    /\ prompts = <<>>
    /\ reported = <<>>
    /\ summary = "none"
    /\ exitCode = -1
    /\ faults = TRUE
    /\ \E f \in StartFiles(faults) :
        /\ fileState = f.state
        /\ ledger = f.entries
    /\ ledger0 = ledger
    /\ now = 0
    /\ SafetyIdle
    /\ CallsIdle
    /\ PathsIdle

NextFaulty ==
    \/ WorkflowPlanned
    \/ WorkflowFailed
    \/ ConfirmAnswer
    \/ ExecResolves
    \/ ExecRejects
    \/ CheckConflictsS
    \/ AbortAnswerS
    \/ AbortMergeReturnsS
    \/ CheckConflictsF
    \/ AbortAnswerF
    \/ AbortMergeReturnsF
    \/ SuggestionArrives
    \/ SuggestionFails
    \/ PreviewDone
    \/ ProceedAnswer
    \/ MessageEntered
    \/ StatusArrives
    \/ StatusFails
    \/ StageAllAnswer
    \/ StageResolves
    \/ StageRejects
    \/ RunAnswer
    \/ SingleExecResolves
    \/ SingleExecRejects
    \/ RemotesListed
    \/ LocalsListed
    \/ RecoveryAnswer
    \/ RecoveryExecResolves
    \/ RecoveryExecRejects

SpecFaulty == InitFaulty /\ [][NextFaulty]_vars

\* The calls of execAsync, among the first k, that resolved.
Resolved(k) == {e \in 1..k : execOutcomes[e]}

\* The step executed k-th has had its conflict query answered "conflicts".
ConflictAt(k) == \E c \in ChecksOf(k) : checkLog[c].hasConflicts

\* C22: with reads and writes of the ledger file failing at will, a run is
\* what the results of its commands, the conflict reports and the operator's
\* answers make it where the ledger works. In a workflow: a step whose
\* command resolved is Success and one whose command was rejected is Failed;
\* the count of completed steps is the number of resolved commands; a further
\* step is executed only after a resolved one with no conflict reported;
\* every merge/pull/rebase step passed has had its conflict query; the
\* confirmed run ends with the summary and exit code of that count. In the
\* single-command path: once the command was executed the process ends with
\* exit code 0.
C22_LedgerFailureNotPropagated ==
    /\ NSteps > 0 =>
        /\ \A k \in 1..Len(execOutcomes) :
            Status(execLog[k]) = (IF execOutcomes[k] THEN "success" ELSE "failed")
        /\ completedSteps = Cardinality(Resolved(Len(execOutcomes)))
        /\ \A k \in 1..(Len(execLog) - 1) : execOutcomes[k] /\ ~ConflictAt(k)
        /\ \A k \in 1..(Len(execLog) - 1) :
            workflow.steps[k].command \in MergeFamilyCommands =>
                Cardinality(ChecksOf(k)) = 1
        /\ (pc = "exited" /\ PlanConfirmed) =>
            /\ Len(execOutcomes) = Len(execLog)
            /\ summary = (IF completedSteps = NSteps THEN "complete"
                          ELSE IF completedSteps > 0 THEN "partial" ELSE "failed")
            /\ exitCode = (IF completedSteps = NSteps THEN 0 ELSE 1)
    /\ (cmd # <<>> /\ execOutcomes # <<>>) =>
        /\ exitCode \in {-1, 0}
        /\ execOutcomes[1] => (pc = "exited" /\ exitCode = 0)

\* A workflow of two steps ran to "complete" and the ledger file, which held
\* an entry before, holds one entry: the first step's, lost with the earlier
\* one to a failed read.
C22_Witness ==
    /\ NSteps = 2
    /\ pc = "exited"
    /\ summary = "complete"
    /\ execOutcomes = <<TRUE, TRUE>>
    /\ ledger0 # <<>>
    /\ Len(ledger) = 1

\* A single command ran and resolved, the write of its entry failed, and the
\* process ended with exit code 0.
C22_WitnessSingle ==
    /\ cmd # <<>>
    /\ execOutcomes = <<TRUE>>
    /\ pc = "exited"
    /\ exitCode = 0
    /\ ledger0 # <<>>
    /\ fileState = "malformed"

\* ------------------------------------------------------------- two writers

\* Two invocations share the ledger file, which reads and writes without
\* failure.
InitRace ==
    /\ WorkflowIdle
    /\ SafetyIdle
    /\ CallsIdle
    /\ PathsIdle
    /\ faults = FALSE
    /\ \E f \in StartFiles(faults) :
        /\ ledger = f.entries
        /\ fileState = f.state
    /\ ledger0 = ledger
    /\ now = 0

\* Process w enters addLedgerEntry(entry): getLedger() reads the whole file
\* and the new entry is pushed onto the array in memory.
WriterReads(w) ==
    /\ writers[w].phase = "idle"
    /\ Len(supplied) + Cardinality({v \in Writers : writers[v].phase = "read"}) < MaxAppends
    /\ \E entry \in LedgerInputs :
        writers' = [writers EXCEPT ![w] =
            [phase |-> "read",
             local |-> Push(getLedger(File, TRUE).entries, NewEntry(entry, now)),
             entry |-> Some(entry),
             t |-> now,
             appends |-> @.appends]]
    /\ UNCHANGED <<workflowVars, safetyVars, pathVars, storeVars, supplied, readOut,
                   lastOut, appendThrew>>

\* Process w writes its array back as the whole file: saveLedger(ledger), and
\* addLedgerEntry returns.
WriterWrites(w) ==
    /\ writers[w].phase = "read"
    /\ LET f == saveLedger(File, writers[w].local, "ok")
       IN  /\ ledger' = f.entries
           /\ fileState' = f.state
    /\ supplied' = Append(supplied, [entry |-> writers[w].entry[1], t |-> writers[w].t])
    /\ writers' = [writers EXCEPT ![w] =
            [phase |-> "idle", local |-> <<>>, entry |-> <<>>, t |-> 0,
             appends |-> @.appends + 1]]
    /\ UNCHANGED <<workflowVars, safetyVars, pathVars, faults, now, readOut, lastOut,
                   appendThrew>>

NextRace ==
    \/ \E w \in Writers : WriterReads(w)
    \/ \E w \in Writers : WriterWrites(w)
    \/ Tick

SpecRace == InitRace /\ [][NextRace]_vars

\* The entries addLedgerEntry built for the calls that have returned.
SuppliedEntries == [k \in 1..Len(supplied) |-> NewEntry(supplied[k].entry, supplied[k].t)]

\* C23: while only one of the two processes has called addLedgerEntry, the
\* ledger file holds the entries it held at the start followed by every
\* entry appended, in order: none is lost. (That both processes can return
\* from addLedgerEntry with one of the two entries missing from the file is
\* the reachable state C23_Witness.)
C23_SingleWriterLosesNothing ==
    (\E w \in Writers : writers[w] = IdleWriter) =>
        ledger = ledger0 \o SuppliedEntries

\* Both processes have returned from one call of addLedgerEntry each, and the
\* file holds one entry more than at the start, not two.
C23_Witness ==
    /\ \A w \in Writers : writers[w].phase = "idle" /\ writers[w].appends = 1
    /\ Len(supplied) = 2
    /\ Len(ledger) = Len(ledger0) + 1
    /\ ledger0 # <<>>

\* ------------------------------------------------------------- undo

W_one == <<"1">>
AMP == <<"&", "&">>

\* What undo tests the last command for, and what it then proposes.
P_commit == GIT \o SP \o W_commit
P_add == GIT \o SP \o W_add
P_push == GIT \o SP \o W_push
U_reset_soft1 == GIT \o SP \o W_reset \o SP \o F_soft \o SP \o W_HEAD \o W_tilde \o W_one
U_reset_head == GIT \o SP \o W_reset \o SP \o W_HEAD

\* Commands of earlier entries: a commit with two spaces after git, an add
\* followed by a commit, a commit followed by a push.
S_commit_2sp == GIT \o SP \o SP \o W_commit \o SP \o F_m \o SP \o QUOTE \o W_x \o QUOTE
S_add_then_commit == S_add_A \o SP \o AMP \o SP \o S_commit_m
S_commit_then_push == S_commit_m \o SP \o AMP \o SP \o S_push

\* The entries earlier invocations may have left last in the ledger: by the
\* single-command path, by a workflow step, succeeded or failed.
EarlierEntries ==
    {SingleEntry(S_commit_m), SingleEntry(S_add_A), SingleEntry(S_push),
     SingleEntry(S_commit_2sp), SingleEntry(S_add_then_commit),
     SingleEntry(S_commit_then_push), SingleFailedEntry(S_commit_m),
     RecoveryEntry(RecoveryCommand("create", W_x)),
     SuccessEntry(1, 2, C_fetch), SuccessEntry(2, 2, C_rebase_i),
     FailedEntry(1, 2, C_merge)}

\* The ledgers undo may find: none, or up to two earlier entries.
UndoLedgers ==
    {<<>>}
    \cup {<<NewEntry(e, -1)>> : e \in EarlierEntries}
    \cup {<<NewEntry(d, -2), NewEntry(e, -1)>> : d \in {SingleEntry(S_commit_m)},
                                                   e \in EarlierEntries}

\* Lines 537-555: the reversal undo proposes for the last entry, if any.
ChooseReversal_StoredFirst(lastCommand) ==
    IF lastCommand.reversalCommand # Undefined THEN lastCommand.reversalCommand
    ELSE IF Includes(lastCommand.command, P_commit) THEN Some(U_reset_soft1)
    ELSE IF Includes(lastCommand.command, P_add) THEN Some(U_reset_head)
    ELSE Undefined

ChooseReversal(lastCommand) ==
    IF Includes(lastCommand.command, P_commit) THEN Some(U_reset_soft1)
    ELSE IF Includes(lastCommand.command, P_add) THEN Some(U_reset_head)
    ELSE IF Includes(lastCommand.command, P_push) THEN Undefined
    ELSE IF lastCommand.reversalCommand # Undefined THEN lastCommand.reversalCommand
    ELSE Undefined

\* An undo entry that stores the placeholder as its own reversal.
UndoEntry_Reversible(lastCommand, command) ==
    [description |-> [kind |-> "undo", step |-> lastCommand.description.step,
                      of |-> lastCommand.description.of],
     command |-> command,
     status |-> "success",
     reversalCommand |-> Some(C_reflog)]

\* The entry undo logs: `Undo: ${lastCommand.description}`, the reversal as
\* command, no reversalCommand.
UndoEntry(lastCommand, command) ==
    [description |-> [kind |-> "undo", step |-> lastCommand.description.step,
                      of |-> lastCommand.description.of],
     command |-> command,
     status |-> "success",
     reversalCommand |-> Undefined]

\* What undo leaves alone.
undoIdle == <<workflow, i, completedSteps, ledger0, execLog, checkLog,
              abortCalls, reported, summary, faults, now, safetyVars, callVars, cmd,
              recovery, provider>>

\* undo starts: getLastCommand() and the tests up to the prompt. An exception
\* of getLastCommand is an unhandled rejection: the process ends with code 1.
UndoStart ==
    /\ pc = "undoStart"
    /\ undos' = undos + 1
    /\ \E readOk \in ReadOutcomes :
        LET got == getLastCommand(File, readOk)
            lastCommand == got.entry[1]
        IN  IF got.threw
            THEN Exit(1) /\ UNCHANGED <<target, reversal>>
            ELSE /\ target' = got.entry
                 /\ IF got.entry = Undefined
                    THEN Exit(0) /\ reversal' = <<>>
                    ELSE IF lastCommand.status = "failed"
                    THEN Exit(0) /\ reversal' = <<>>
                    ELSE IF ChooseReversal(lastCommand) = Undefined
                    THEN Exit(0) /\ reversal' = <<>>
                    ELSE /\ reversal' = ChooseReversal(lastCommand)[1]
                         /\ pc' = "awaitUndoAnswer"
                         /\ UNCHANGED exitCode
    /\ UNCHANGED <<undoIdle, ledger, fileState, prompts, ran, execOutcomes>>

\* The operator's answer to 'Run: <reversal>?'.
UndoAnswer ==
    /\ pc = "awaitUndoAnswer"
    /\ \E shouldUndo \in BOOLEAN :
        /\ prompts' = Append(prompts, [prompt |-> "undo", answer |-> shouldUndo])
        /\ IF Declined(shouldUndo)
           THEN Exit(0) /\ UNCHANGED ran
           ELSE /\ ran' = Append(ran, reversal)
                /\ pc' = "awaitUndoExec"
                /\ UNCHANGED exitCode
    /\ UNCHANGED <<undoIdle, ledger, fileState, target, reversal, undos, execOutcomes>>

\* execAsync(reversalCommand) resolves: the undo is logged and the action
\* returns; the catch block takes an exception of addLedgerEntry.
UndoExecResolves ==
    /\ pc = "awaitUndoExec"
    /\ \E readOk \in ReadOutcomes, written \in WriteOutcomes :
        LET f == addLedgerEntry(File, UndoEntry(target[1], reversal), now, readOk, written)
        IN  /\ ledger' = f.entries
            /\ fileState' = f.state
    /\ Exit(0)
    /\ execOutcomes' = Append(execOutcomes, TRUE)
    /\ UNCHANGED <<undoIdle, prompts, ran, target, reversal, undos>>

\* execAsync(reversalCommand) rejects: 'Undo failed', the action returns.
UndoExecRejects ==
    /\ pc = "awaitUndoExec"
    /\ Exit(0)
    /\ execOutcomes' = Append(execOutcomes, FALSE)
    /\ UNCHANGED <<undoIdle, ledger, fileState, prompts, ran, target, reversal, undos>>

\* The operator invokes undo once more.
UndoAgain ==
    /\ pc = "exited"
    /\ undos < MaxUndos
    /\ pc' = "undoStart"
    /\ exitCode' = -1
    /\ UNCHANGED <<undoIdle, ledger, fileState, prompts, ran, target, reversal, undos,
                   execOutcomes>>

NextUndo ==
    \/ UndoStart
    \/ UndoAnswer
    \/ UndoExecResolves
    \/ UndoExecRejects
    \/ UndoAgain
    \/ Tick

\* undo was invoked, on a ledger file that reads and writes.
InitUndo ==
    /\ workflow = NoWorkflow
    /\ pc = "undoStart"
    /\ i = 0
    /\ completedSteps = 0
    /\ execLog = <<>>
    /\ execOutcomes = <<>>
    /\ checkLog = <<>>
    /\ abortCalls = <<>>
    /\ prompts = <<>>
    /\ reported = <<>>
    /\ summary = "none"
    /\ exitCode = -1
    /\ faults = FALSE
    /\ \E l \in UndoLedgers :
        /\ ledger = l
        /\ fileState = IF l = <<>> THEN "missing" ELSE "array"
    /\ ledger0 = ledger
    /\ now = 0
    /\ SafetyIdle
    /\ CallsIdle
    /\ PathsIdle

SpecUndo == InitUndo /\ [][NextUndo]_vars

\* ------------------------------------------------------------- claims C24-C26

\* The last entry of the persisted ledger, if it has one.
LastOf(entries) == IF entries = <<>> THEN Undefined ELSE Some(entries[Len(entries)])

\* C24: undo targets the last entry of the persisted ledger, whoever wrote it:
\* while undo waits for the answer or for the reversal to run, and when it
\* returned without proposing one, the entry it looked at is the ledger's
\* last; on an empty ledger it finds none, executes nothing and appends nothing.
C24_UndoTargetsLast ==
    /\ (pc \in {"awaitUndoAnswer", "awaitUndoExec"} \/ (pc = "exited" /\ reversal = <<>>))
        => target = LastOf(ledger)
    /\ pc = "awaitUndoExec" => ran # <<>> /\ ran[Len(ran)] = reversal
    /\ (ledger0 = <<>> /\ undos >= 1) => (target = Undefined /\ ran = <<>> /\ ledger = <<>>)

\* A second undo looks at the entry the first undo wrote.
C24_Witness ==
    /\ undos = 2
    /\ target # Undefined
    /\ target[1].description.kind = "undo"
    /\ Len(ledger) = Len(ledger0) + 1
    /\ target = LastOf(ledger)

\* C25: when undo finds a last entry whose status is failed or whose command
\* contains a push, that invocation proposes no reversal, returns, executes
\* nothing and leaves the ledger as it is.
C25_FailedOrPushRefused ==
    [][(/\ undos' # undos
        /\ target' # Undefined
        /\ (target'[1].status = "failed" \/ Contains(target'[1].command, P_push)))
       => (reversal' = <<>> /\ pc' = "exited" /\ ran' = ran /\ ledger' = ledger)]_vars

\* The reversal the priority list of the undo command gives a succeeded entry,
\* <<>> where it refuses or offers none.
ExpectedReversal(entry) ==
    IF Contains(entry.command, P_commit) THEN U_reset_soft1
    ELSE IF Contains(entry.command, P_add) THEN U_reset_head
    ELSE IF Contains(entry.command, P_push) THEN <<>>
    ELSE IF entry.reversalCommand # Undefined THEN entry.reversalCommand[1]
    ELSE <<>>

\* C26: for a succeeded last entry undo proposes: 'git reset --soft HEAD~1' if
\* the command contains 'git commit', else 'git reset HEAD' if it contains
\* 'git add', else nothing if it contains 'git push', else the stored
\* reversalCommand if there is one, else nothing; the stored reversalCommand is
\* proposed only when the command contains none of the three.
C26_ReversalPriority ==
    (target # Undefined /\ target[1].status = "success")
    => /\ reversal = ExpectedReversal(target[1])
       /\ (\E p \in {P_commit, P_add, P_push} : Contains(target[1].command, p))
           => reversal \in {U_reset_soft1, U_reset_head, <<>>}

\* A succeeded push that stored the placeholder reversal is refused.
C26_Witness ==
    /\ target # Undefined
    /\ target[1].status = "success"
    /\ target[1].command = S_push
    /\ target[1].reversalCommand = Some(C_reflog)
    /\ reversal = <<>>
    /\ pc = "exited"

\* ------------------------------------------------------------- claims C27-C30

\* The entries appended to the ledger since the invocation started.
NewEntries == {ledger[n] : n \in (Len(ledger0) + 1)..Len(ledger)}

\* C27: the entry of a succeeded workflow step carries the placeholder
\* 'git reflog' as reversal command exactly when isReversible(step command),
\* and none otherwise; the entry of a failed step carries none.
C27_WorkflowPlaceholder ==
    \A e \in NewEntries :
        LET k == e.description.step
        IN  /\ e.description.kind = "workflow"
            /\ k \in 1..NSteps
            /\ e.command = workflow.steps[k].command
            /\ e.status = "success"
                => /\ isReversible(workflow.steps[k].command) => e.reversalCommand = Some(C_reflog)
                   /\ ~isReversible(workflow.steps[k].command) => e.reversalCommand = Undefined
            /\ e.status = "failed" => e.reversalCommand = Undefined

\* A workflow logged a reversible step that succeeded, a step matching a
\* dangerous pattern that succeeded and a reversible step that failed.
C27_Witness ==
    /\ \E e \in NewEntries :
        e.status = "success" /\ isReversible(e.command) /\ e.reversalCommand = Some(C_reflog)
    /\ \E e \in NewEntries :
        e.status = "success" /\ ~isReversible(e.command) /\ e.reversalCommand = Undefined
    /\ \E e \in NewEntries :
        e.status = "failed" /\ isReversible(e.command) /\ e.reversalCommand = Undefined

\* C28: the entry the single-command path logs for its succeeded command
\* carries the reversal getReversalCommand resolves for that command.
C28_SingleStoresResolved ==
    \A e \in NewEntries :
        (e.description.kind = "single" /\ e.status = "success" /\ e.command = cmd)
        => e.reversalCommand = getReversalCommand(e.command)

\* The indices of the steps analyzeCommand rates dangerous.
DangerousIndices == {k \in 1..NSteps : analyzeCommand(workflow.steps[k].command).riskLevel = "dangerous"}

\* C29: once a plan is shown, its dangerous steps, all of them and no others,
\* are reported and the program waits at the one confirmation of the whole
\* plan, whatever the steps' risk; no step runs before that prompt got a yes,
\* the first step runs after exactly one prompt, and no later prompt is a
\* plan confirmation.
C29_OneConfirmation ==
    /\ workflow # NoWorkflow
        => /\ {reported[n] : n \in 1..Len(reported)} = DangerousIndices
           /\ Len(reported) = Cardinality(DangerousIndices)
    /\ (workflow # NoWorkflow /\ prompts = <<>>) => (pc = "awaitConfirm" /\ execLog = <<>>)
    /\ execLog # <<>> => prompts[1] = [prompt |-> "workflowConfirm", answer |-> TRUE]
    /\ (Len(execLog) = 1 /\ pc = "awaitExec") => Len(prompts) = 1
    /\ \A n \in 2..Len(prompts) : prompts[n].prompt # "workflowConfirm"

\* A plan with a dangerous step ran to its last step after one confirmation.
C29_Witness ==
    /\ DangerousIndices # {}
    /\ Len(execLog) = NSteps
    /\ NSteps >= 2
    /\ Len(prompts) = 1
    /\ summary = "complete"

\* The positions of the answers yes to a prompt.
YesTo(prompt) == {n \in 1..Len(prompts) : prompts[n] = [prompt |-> prompt, answer |-> TRUE]}

\* C30: a command rated dangerous runs only after a yes to 'cannot be undone'
\* and a later yes to the run confirmation; after a no to either of the two
\* prompts the command has not run and the ledger is as it was.
C30_DangerousNeedsBothYes ==
    /\ (cmd # <<>> /\ analyzeCommand(cmd).riskLevel = "dangerous"
        /\ \E n \in 1..Len(ran) : ran[n] = cmd)
        => \E a \in YesTo("cannotBeUndone"), b \in YesTo("confirmRun") : a < b
    /\ (\E n \in 1..Len(prompts) :
            /\ prompts[n].prompt \in {"cannotBeUndone", "confirmRun"}
            /\ ~prompts[n].answer)
        => /\ \A n \in 1..Len(ran) : ran[n] # cmd
           /\ execOutcomes = <<>>
           /\ ledger = ledger0

\* A hard reset ran after both answers and was logged.
C30_Witness ==
    /\ cmd = R_reset_hard
    /\ ran = <<cmd>>
    /\ prompts = <<[prompt |-> "cannotBeUndone", answer |-> TRUE],
                   [prompt |-> "confirmRun", answer |-> TRUE]>>
    /\ Len(ledger) = Len(ledger0) + 1
    /\ ledger[Len(ledger)].command = cmd

\* ------------------------------------------------------------- every invocation path

\* One invocation of gitease: a workflow query, a single-command query or
\* undo, on a ledger file that reads and writes.
InitPaths ==
    /\ workflow = NoWorkflow
    /\ pc \in {"awaitWorkflow", "awaitSuggestion", "undoStart"}
    /\ i = 0
    /\ completedSteps = 0
    /\ execLog = <<>>
    /\ execOutcomes = <<>>
    /\ checkLog = <<>>
    /\ abortCalls = <<>>
    /\ prompts = <<>>
    /\ reported = <<>>
    /\ summary = "none"
    /\ exitCode = -1
    /\ faults = FALSE
    /\ \E l \in (IF pc = "undoStart" THEN UndoLedgers
                  ELSE {f.entries : f \in StartFiles(faults)}) :
        /\ ledger = l
        /\ fileState = IF l = <<>> THEN "missing" ELSE "array"
    /\ ledger0 = ledger
    /\ now = 0
    /\ SafetyIdle
    /\ CallsIdle
    /\ PathsIdle

NextPaths ==
    \/ WorkflowPlanned
    \/ WorkflowFailed
    \/ ConfirmAnswer
    \/ ExecResolves
    \/ ExecRejects
    \/ CheckConflictsS
    \/ AbortAnswerS
    \/ AbortMergeReturnsS
    \/ CheckConflictsF
    \/ AbortAnswerF
    \/ AbortMergeReturnsF
    \/ SuggestionArrives
    \/ SuggestionFails
    \/ PreviewDone
    \/ ProceedAnswer
    \/ MessageEntered
    \/ StatusArrives
    \/ StatusFails
    \/ StageAllAnswer
    \/ StageResolves
    \/ StageRejects
    \/ RunAnswer
    \/ SingleExecResolves
    \/ SingleExecRejects
    \/ RemotesListed
    \/ LocalsListed
    \/ RecoveryAnswer
    \/ RecoveryExecResolves
    \/ RecoveryExecRejects
    \/ UndoStart
    \/ UndoAnswer
    \/ UndoExecResolves
    \/ UndoExecRejects

SpecPaths == InitPaths /\ [][NextPaths]_vars

\* ------------------------------------------------------------- claims C31-C40

\* The positions of the answers yes to one of the prompts.
YesToAny(names) == UNION {YesTo(name) : name \in names}

\* C31: the commands handed to execAsync or to abortMerge are covered by
\* answers yes given in the same invocation: a workflow step runs only after
\* a yes to the plan confirmation, each abortMerge after a yes to an abort
\* prompt, each of git add -A, the main command, a recovery checkout and an
\* undo reversal after a yes to its own prompt; with no yes at all, nothing
\* is executed.
C31_ConfirmedBeforeExecuted ==
    /\ execLog # <<>> => YesTo("workflowConfirm") # {}
    /\ Len(abortCalls) <= Cardinality(YesTo("conflictAbort"))
    /\ Len(ran) <= Cardinality(YesToAny({"stageAll", "confirmRun", "track", "create", "undo"}))
    /\ (\E n \in 1..Len(ran) : ran[n] = S_add_A /\ cmd # S_add_A) => YesTo("stageAll") # {}
    /\ (cmd # <<>> /\ \E n \in 1..Len(ran) : ran[n] = cmd) => YesTo("confirmRun") # {}
    /\ (reversal # <<>> /\ \E n \in 1..Len(ran) : ran[n] = reversal) => YesTo("undo") # {}
    /\ (\A n \in 1..Len(prompts) : prompts[n].prompt # "commitMessage" => ~prompts[n].answer)
        => (execLog = <<>> /\ abortCalls = <<>> /\ ran = <<>>)

\* A commit with nothing staged: git add -A ran after the yes to staging,
\* the commit after the yes to the run confirmation.
C31_Witness ==
    /\ Len(ran) = 2
    /\ ran[1] = S_add_A
    /\ ran[2] = cmd
    /\ YesTo("stageAll") # {}
    /\ YesTo("confirmRun") # {}
    /\ \A a \in YesTo("stageAll"), b \in YesTo("confirmRun") : a < b

\* C32: after the suggestion provider failed, for a single suggestion or for
\* a workflow, the process has ended with exit code 1, no command was handed
\* to execAsync or abortMerge, no prompt was put, no workflow and so no step
\* status exists, and the ledger file is as it was.
C32_ProviderFailureRecordsNothing ==
    provider = "failed"
    => /\ pc = "exited"
       /\ exitCode = 1
       /\ execLog = <<>> /\ ran = <<>> /\ abortCalls = <<>> /\ execOutcomes = <<>>
       /\ prompts = <<>>
       /\ workflow = NoWorkflow /\ cmd = <<>>
       /\ summary = "none"
       /\ ledger = ledger0

\* The provider failed in an invocation whose ledger holds an entry.
C32_Witness ==
    /\ provider = "failed"
    /\ pc = "exited"
    /\ ledger0 # <<>>
    /\ undos = 0
    /\ ledger = ledger0

\* The steps whose command was handed to execAsync.
Started == {execLog[n] : n \in 1..Len(execLog)}

\* C33: the steps of a run do not overlap: at most one step is running; the
\* commands were started in step order, each after the one before returned;
\* and when step k+1 was started, step k had succeeded, its conflict check, if
\* it is a merge, pull or rebase, had returned without conflicts, no abort
\* question of it was open, and its ledger entry had been appended.
C33_StepsDoNotOverlap ==
    /\ Cardinality({k \in 1..NSteps : workflow.steps[k].status = "running"}) <= 1
    /\ \A n \in 1..Len(execLog) : execLog[n] = n
    /\ Len(execOutcomes) = (IF pc = "awaitExec" THEN Len(execLog) - 1 ELSE Len(execLog))
    /\ pc = "awaitExec" => workflow.steps[i].status = "running" /\ i = Len(execLog)
    /\ \A k \in 1..NSteps :
        (k + 1) \in Started
        => /\ workflow.steps[k].status = "success"
           /\ execOutcomes[k]
           /\ IsMergeFamily(workflow.steps[k].command)
               => \E c \in 1..Len(checkLog) : checkLog[c] = [step |-> k, hasConflicts |-> FALSE]
           /\ \A c \in 1..Len(checkLog) : checkLog[c].step = k => ~checkLog[c].hasConflicts
           /\ \E e \in NewEntries : e.description.step = k /\ e.status = "success"

\* The third step runs after a merge and a pull that were checked and logged.
C33_Witness ==
    /\ NSteps = 3
    /\ execLog = <<1, 2, 3>>
    /\ pc = "awaitExec"
    /\ IsMergeFamily(workflow.steps[1].command)
    /\ IsMergeFamily(workflow.steps[2].command)
    /\ Len(checkLog) = 2
    /\ Len(ledger) = Len(ledger0) + 2

\* C34: a git merge command is classified Warning.
C34_MergeIsWarning ==
    (/\ verdict # <<>>
     /\ safetyIn.sep # <<>>
     /\ safetyIn.verb = W_merge
     /\ (safetyIn.sep2 = SP \/ safetyIn.arg = <<>>))
    => verdict[1].riskLevel = "warning"

\* C35: the branch deletion git branch -D is classified Dangerous.
C35_BranchDeleteIsDangerous ==
    (/\ verdict # <<>>
     /\ safetyIn.sep # <<>>
     /\ safetyIn.verb = W_branch
     /\ safetyIn.sep2 = SP
     /\ safetyIn.arg = F_D)
    => verdict[1].riskLevel = "dangerous"

\* C36: when an invocation has ended, every command it handed to execAsync
\* (git add -A, the main command, a recovery checkout, an undo reversal, each
\* started workflow step) has an entry in the ledger that records it.
C36_EveryExecutedCommandLogged ==
    pc = "exited"
    => /\ \A n \in 1..Len(ran) : \E e \in NewEntries : e.command = ran[n]
       /\ \A k \in Started :
            \E e \in NewEntries :
                /\ e.description.kind = "workflow"
                /\ e.description.step = k
                /\ e.command = workflow.steps[k].command

\* ------------------------------------------------------------- termination

\* The steps of handleWorkflow, each the return of an awaited call or prompt.
NextRun ==
    \/ WorkflowPlanned
    \/ WorkflowFailed
    \/ ConfirmAnswer
    \/ ExecResolves
    \/ ExecRejects
    \/ CheckConflictsS
    \/ AbortAnswerS
    \/ AbortMergeReturnsS
    \/ CheckConflictsF
    \/ AbortAnswerF
    \/ AbortMergeReturnsF

\* handleWorkflow where every awaited call and every prompt returns.
SpecRun == Init /\ [][NextRun]_vars /\ WF_vars(NextRun)

\* Every step is Success, Failed or Skipped.
AllSettled == \A k \in 1..NSteps : workflow.steps[k].status \in {"success", "failed", "skipped"}

\* C37: a confirmed run ends, and when it has ended no step is Pending or
\* Running.
C37_ConfirmedRunTerminates ==
    /\ PlanConfirmed ~> (pc = "exited" /\ AllSettled)
    /\ []((PlanConfirmed /\ pc = "exited") => AllSettled)

\* A run of three steps ended after its first step failed: one step Failed,
\* two Skipped.
C37_Witness ==
    /\ PlanConfirmed
    /\ pc = "exited"
    /\ NSteps = 3
    /\ workflow.steps[1].status = "failed"
    /\ workflow.steps[2].status = "skipped"
    /\ workflow.steps[3].status = "skipped"

\* C38: a run in which checkConflicts reported conflicts does not end with
\* the summary 'complete' nor with exit code 0.
C38_ConflictsNeverComplete ==
    (pc = "exited" /\ \E c \in 1..Len(checkLog) : checkLog[c].hasConflicts)
    => (summary # "complete" /\ exitCode # 0)

\* The reversals undo ran that returned success.
UndoneOk == {n \in 1..Len(execOutcomes) : execOutcomes[n]}

\* C39: undo appends exactly one entry per reversal that was confirmed, ran
\* and succeeded: status success, the reversal as command, no
\* reversalCommand; refused, declined or failed undos append nothing and the
\* earlier entries stay. An undo that finds an undo's entry last proposes
\* nothing and runs nothing: the last command run is still the one that
\* entry records.
C39_UndoLogsOnlySuccess ==
    /\ Len(ledger) = Len(ledger0) + Cardinality(UndoneOk)
    /\ SubSeq(ledger, 1, Len(ledger0)) = ledger0
    /\ Len(execOutcomes) <= Len(ran)
    /\ Len(ran) = Cardinality(YesTo("undo"))
    /\ \A e \in NewEntries :
        /\ e.description.kind = "undo"
        /\ e.status = "success"
        /\ e.reversalCommand = Undefined
        /\ \E n \in UndoneOk : ran[n] = e.command
    /\ (target # Undefined /\ target[1].description.kind = "undo")
        => /\ reversal = <<>>
           /\ pc \in {"exited", "undoStart"}
           /\ Len(execOutcomes) = Len(ran)
           /\ ran[Len(ran)] = target[1].command
           /\ execOutcomes[Len(ran)]

\* An undo succeeded and the next undo, finding its entry, ended without
\* running anything.
C39_Witness ==
    /\ undos = 2
    /\ pc = "exited"
    /\ target # Undefined
    /\ target[1].description.kind = "undo"
    /\ target[1].command = U_reset_soft1
    /\ execOutcomes = <<TRUE>>
    /\ Len(ran) = 1

\* C40: a workflow that reached the plan confirmation, or anything after it,
\* has at least one step, each step's command starts with 'git ', and
\* stopOnFailure is true; at the confirmation every step is pending; without
\* a step the run has put no prompt and printed no summary.
C40_PlannedWorkflowShape ==
    /\ (pc = "awaitConfirm" \/ prompts # <<>> \/ summary # "none" \/ provider = "resolved")
        => /\ NSteps >= 1
           /\ workflow.stopOnFailure
           /\ \A k \in 1..NSteps :
                /\ Len(workflow.steps[k].command) >= 4
                /\ SubSeq(workflow.steps[k].command, 1, 4) = <<"g", "i", "t", " ">>
    /\ pc = "awaitConfirm" => \A k \in 1..NSteps : workflow.steps[k].status = "pending"
    /\ NSteps = 0
        => (pc \in {"awaitWorkflow", "exited"} /\ prompts = <<>> /\ summary = "none"
            /\ provider # "resolved")

\* A plan of three steps, the last with a tab after 'git ', waits for its
\* confirmation.
C40_Witness ==
    /\ pc = "awaitConfirm"
    /\ NSteps = 3
    /\ workflow.steps[1].command = C_fetch
    /\ workflow.steps[2].command = C_pull
    /\ workflow.steps[3].command = C_push_force
    /\ prompts = <<>>

=============================================================================
